---- MODULE Spec2Model ----
(***************************************************************************)
(* A model of the personal-agent task engine: the Task entity and its step *)
(* log, the TaskRepository over the JSON Store, the worker decision loop,  *)
(* the engine's run_single_task, the atomic-save protocol of the persisted *)
(* files, the provider metrics ledger, the IRIS checkpoint / WRITE         *)
(* machinery, the account ledger and rotator, the policy-driven model      *)
(* router, the supervisor's batch run, the worker's step loop, the IRIS    *)
(* journal with its compaction, and the FileLock around the context files. *)
(*                                                                         *)
(* Every operation is modelled as the method body executes in Python once  *)
(* its module is loaded: an attribute that does not exist, a name that is  *)
(* not bound, or a call on a value of the wrong type raises, and the       *)
(* exception takes the path the surrounding try/except gives it.           *)
(*                                                                         *)
(* Abstractions: texts (goals, results, file lines) are tokens; the        *)
(* timestamps created_at / updated_at and the Task.memory map are left     *)
(* out; the LLM provider is the environment, which picks the class of the  *)
(* generated text (or raises).                                             *)
(***************************************************************************)
EXTENDS Integers, Sequences, FiniteSets, TLC

(***************************************************************************)
(* Bounds of the model.                                                    *)
(***************************************************************************)
MaxId == 1          \* ids a repository may allocate (next_id <= MaxId)
MaxRuns == 1        \* run_single_task calls over all process lifetimes
MaxSteps == 1       \* max_steps handed to the worker loop (code default 10)

VARIABLES
    tasks,      \* TaskRepository._tasks: id -> Task
    next_id,    \* TaskRepository._next_id
    disk,       \* content of data/tasks.json (== MemoryStore._data)
    repo_pc,    \* "idle", or "save_next_id" between the two writes of _save_tasks
    issued_max, \* history: the greatest id create has returned, over all restarts
    runs        \* history: the number of run_single_task calls so far

taskVars == <<tasks, next_id, disk, repo_pc, issued_max, runs>>

VARIABLES
    ctx,        \* .context/context.json: [exists, current_task]
    iris_task,  \* the CurrentTask object execute_task holds while it runs
    iris_out,   \* the error code the last execute_task printed ("" if none)
    fs,         \* the project's files: path -> [exists, lines]
    ckpt,       \* .context/checkpoints/<task_id>/: file name -> lines
    clock,      \* time.time() in milliseconds
    edit        \* the edit a caller of the checkpoint API has in progress

irisVars == <<ctx, iris_task, iris_out, fs, ckpt, clock, edit>>

VARIABLES
    inodes,     \* the file system's inodes: inode number -> content (chunks)
    names,      \* directory entries of the target and of its sibling ".tmp"
    savers,     \* each saver's position inside _save, its descriptor and progress
    saves,      \* number of _save calls started
    observed    \* the content the last load read from the target

storeVars == <<inodes, names, savers, saves, observed>>

VARIABLES
    metrics,      \* ModelMetrics._metrics: provider -> counters
    metrics_file  \* what _save wrote to data/model_metrics.json

metricsVars == <<metrics, metrics_file>>

VARIABLES
    accounts,   \* AccountManager._accounts: provider -> list of accounts
    acct_file,  \* what _save wrote to data/accounts.json
    acct_now,   \* the wall clock in seconds
    acct_out,   \* the last AccountManager / AccountRotator call and its result
    marked      \* history: account id -> time of the last mark_used call on it

acctVars == <<accounts, acct_file, acct_now, acct_out, marked>>

VARIABLES
    router_providers,  \* ModelRouter._providers: the registered names, in order
    router_cfg,        \* which systems the ModelRouter was constructed with
    router_metrics,    \* the _metrics of the ModelMetrics behind the policy
    router_now,        \* the wall clock in seconds
    router_out         \* the last ModelRouter.generate call and its result

routerVars ==
    <<router_providers, router_cfg, router_metrics, router_now, router_out>>

VARIABLES
    supervisor,      \* the SupervisorAgent: workers, queue, active_tasks, status
    sup_tasks,  \* the statuses of the tasks in the supervisor's task_repo
    sup_out     \* the last run_all_pending call and how it ended

supVars == <<supervisor, sup_tasks, sup_out>>

VARIABLES
    worker_in,  \* one engine run on a worker: its wiring and generated texts
    worker_out  \* the dict WorkerAgent.execute returned and the task after

workerVars == <<worker_in, worker_out>>

VARIABLES
    journal,       \* the entries of a Journal object a caller holds
    journal_meta,  \* meta.journal_max and meta.compact_after of the context
    journal_file,  \* the entries in .context/journal.json
    journal_lock,  \* whether .context/.lock exists
    journal_out    \* the last journal call: entries before and after

journalVars == <<journal, journal_meta, journal_file, journal_lock, journal_out>>

VARIABLES
    lock_file,      \* whether the path .context/.lock exists
    lock_pc,        \* where each contender stands in its with FileLock block
    lock_acquired,  \* FileLock.acquired of each contender's lock object
    lock_err        \* the exception each contender's last block ended with

lockVars == <<lock_file, lock_pc, lock_acquired, lock_err>>

VARIABLES
    fresh_router,  \* a ModelRouter() built with no systems: env, providers, default
    fresh_out      \* the last get_provider / generate call on it and its result

freshVars == <<fresh_router, fresh_out>>

VARIABLES
    pool_queue,      \* SupervisorAgent._task_queue: its entries
    pool_active,     \* SupervisorAgent._active_tasks: the ids in it
    pool_taken,      \* history: the entries the workers took, in order
    pool_pc,         \* where a run_all_pending call stands
    pool_timed_out,  \* whether 300 s have gone by since the call's start_time
    pool_out         \* what the last run_all_pending call saw when it returned

poolVars ==
    <<pool_queue, pool_active, pool_taken, pool_pc, pool_timed_out, pool_out>>

VARIABLES
    add_pc,     \* where each concurrent add_journal_entry call stands
    add_local   \* the Journal object each call loaded and appends to

adderVars == <<add_pc, add_local>>

VARIABLES
    rec_total,  \* self._metrics[provider]["total_requests"] in memory
    rec_tmp,    \* model_metrics.tmp: whether it exists and the total in it
    rec_file,   \* the total in model_metrics.json
    rec_pc,     \* where each thread stands in its record_generation call
    rec_read,   \* the total each thread read for its += 1
    rec_err     \* the exception each call ended with, "" for none

recVars == <<rec_total, rec_tmp, rec_file, rec_pc, rec_read, rec_err>>

VARIABLES
    blocked_count,  \* SyscallFilter._blocked_count
    blocked_file,   \* total_blocked in data/syscall_log.json
    tool_out        \* the last call made and how it ended

filterVars == <<blocked_count, blocked_file, tool_out>>

VARIABLES
    read_state, \* the files READ read: path -> the hash it computed
    write_run   \* the last run of the WRITE loop: result, files before and after

runVars == <<read_state, write_run>>

\* what each subsystem outside the core leaves unchanged
extVars ==
    <<acctVars, routerVars, supVars, workerVars, journalVars, lockVars,
      freshVars, poolVars, adderVars, recVars, filterVars, runVars>>

coreVars == <<taskVars, irisVars, storeVars, metricsVars>>

acctFrame ==
    <<coreVars, routerVars, supVars, workerVars, journalVars, lockVars,
      freshVars, poolVars, adderVars, recVars, filterVars, runVars>>

routerFrame ==
    <<coreVars, acctVars, supVars, workerVars, journalVars, lockVars,
      freshVars, poolVars, adderVars, recVars, filterVars, runVars>>

supFrame ==
    <<coreVars, acctVars, routerVars, workerVars, journalVars, lockVars,
      freshVars, poolVars, adderVars, recVars, filterVars, runVars>>

workerFrame ==
    <<coreVars, acctVars, routerVars, supVars, journalVars, lockVars,
      freshVars, poolVars, adderVars, recVars, filterVars, runVars>>

journalFrame ==
    <<coreVars, acctVars, routerVars, supVars, workerVars, lockVars,
      freshVars, poolVars, adderVars, recVars, filterVars, runVars>>

lockFrame ==
    <<coreVars, acctVars, routerVars, supVars, workerVars, journalVars,
      freshVars, poolVars, adderVars, recVars, filterVars, runVars>>

freshFrame ==
    <<coreVars, acctVars, routerVars, supVars, workerVars, journalVars,
      lockVars, poolVars, adderVars, recVars, filterVars, runVars>>

poolFrame ==
    <<coreVars, acctVars, routerVars, supVars, workerVars, journalVars,
      lockVars, freshVars, adderVars, recVars, filterVars, runVars>>

\* the adders work on the journal file and its lock
adderFrame ==
    <<coreVars, acctVars, routerVars, supVars, workerVars, lockVars,
      freshVars, poolVars, recVars, filterVars, runVars>>

recFrame ==
    <<coreVars, acctVars, routerVars, supVars, workerVars, journalVars,
      lockVars, freshVars, poolVars, adderVars, filterVars, runVars>>

filterFrame ==
    <<coreVars, acctVars, routerVars, supVars, workerVars, journalVars,
      lockVars, freshVars, poolVars, adderVars, recVars, runVars>>

runFrame ==
    <<coreVars, acctVars, routerVars, supVars, workerVars, journalVars,
      lockVars, freshVars, poolVars, adderVars, recVars, filterVars>>

\* the same without the core
runFrameExt ==
    <<acctVars, routerVars, supVars, workerVars, journalVars, lockVars,
      freshVars, poolVars, adderVars, recVars, filterVars>>

vars == <<taskVars, irisVars, storeVars, metricsVars, extVars>>

(***************************************************************************)
(* Helpers.                                                                *)
(***************************************************************************)
EmptyMap == [k \in {} |-> 0]

Max(a, b) == IF a >= b THEN a ELSE b

Min(a, b) == IF a <= b THEN a ELSE b

IsPrefix(s, t) == Len(s) <= Len(t) /\ SubSeq(t, 1, Len(s)) = s

\* str(n) for the ids the model reaches
Str(n) == <<"1", "2", "3", "4", "5", "6", "7", "8", "9">>[n]

(***************************************************************************)
(* Task (src/agent/task.py).                                               *)
(***************************************************************************)
\* TaskStatus members; StatusValue gives each member's .value
TaskStatus == {"PENDING", "RUNNING", "PAUSED", "DONE", "ERROR"}

StatusValue(s) ==
    CASE s = "PENDING" -> "pending"
      [] s = "RUNNING" -> "running"
      [] s = "PAUSED"  -> "paused"
      [] s = "DONE"    -> "done"
      [] s = "ERROR"   -> "error"

\* TaskStatus(value): the member with that value
TaskStatusOf(v) == CHOOSE s \in TaskStatus : StatusValue(s) = v

Goals == {"echo hello", "fix bug"}

NewTask(id, goal) ==
    [id |-> id, goal |-> goal, status |-> "PENDING", steps |-> <<>>]
\* add_step numbering a new step with the old length of the log
AddStepFromZero(task, action, error) ==
    [task EXCEPT !.steps = Append(@, [step_id |-> Len(@), action |-> action,
                                      error |-> error])]

\* Task.add_step: step_id = len(steps) + 1, appended
AddStep(task, action, error) ==
    [task EXCEPT !.steps =
        Append(@, [step_id |-> Len(@) + 1, action |-> action, error |-> error])]

\* Task.update_status: assigns, validates nothing
UpdateStatus(task, new_status) == [task EXCEPT !.status = new_status]

\* Task.to_dict / Task.from_dict
ToDict(task) ==
    [id |-> task.id, goal |-> task.goal,
     status |-> StatusValue(task.status), steps |-> task.steps]

FromDict(data) ==
    [id |-> data.id, goal |-> data.goal,
     status |-> TaskStatusOf(data.status), steps |-> data.steps]

(***************************************************************************)
(* MemoryStore and TaskRepository (src/agent/memory.py).                   *)
(***************************************************************************)
StoreGet(d, key, default) == IF key \in DOMAIN d THEN d[key] ELSE default

\* MemoryStore.set: assign the key, then _save the whole mapping
StoreSet(d, key, value) ==
    [k \in (DOMAIN d) \cup {key} |-> IF k = key THEN value ELSE d[k]]

\* the "tasks" value _save_tasks builds: str(id) -> task.to_dict()
TasksData(ts) ==
    [k \in {Str(i) : i \in DOMAIN ts} |->
        ToDict(ts[CHOOSE i \in DOMAIN ts : Str(i) = k])]

\* _load_tasks: every stored dict becomes a Task under its own id
LoadTasks(d) ==
    LET data == StoreGet(d, "tasks", EmptyMap)
        ids == {data[k].id : k \in DOMAIN data}
    IN [i \in ids |-> FromDict(data[CHOOSE k \in DOMAIN data : data[k].id = i])]

LoadNextId(d) == Max(1, StoreGet(d, "next_id", 1))

\* first write of _save_tasks: store.set("tasks", ...)
SaveTasksMap(d, ts) == StoreSet(d, "tasks", TasksData(ts))
\* _save_tasks without its second write
SaveNextIdSkipped(d, n) == d

\* second write of _save_tasks: store.set("next_id", ...)
SaveNextIdValue(d, n) == StoreSet(d, "next_id", n)

(***************************************************************************)
(* WorkerAgent (src/agent/agents/executor.py).  The loop works on the Task *)
(* object it was handed; w = [task, hist] carries the object and the       *)
(* statuses assigned to it so far.                                         *)
(***************************************************************************)
MaxToolsPerStep == 3

LogStep(w, action, error) == [w EXCEPT !.task = AddStep(@, action, error)]

SetStatus(w, s) ==
    [task |-> UpdateStatus(w.task, s), hist |-> Append(w.hist, s)]

\* the classes of generated text that trigger a built-in command
CommandKinds == {"cmd_plain", "cmd_switch", "cmd_pause", "cmd_resume"}

\* CommandResult.state_changes of the command the text triggers
StateChanges(kind) ==
    CASE kind = "cmd_switch" -> {"switch_provider"}
      [] kind = "cmd_pause"  -> {"pause_execution"}
      [] kind = "cmd_resume" -> {"resume_execution"}
      [] OTHER               -> {}

\* CommandResult.interrupt_execution: only PauseCommand sets it
InterruptExecution(kind) == kind = "cmd_pause"

\* _apply_command_state_changes up to its last statement.  That statement,
\* a return that reads steps_completed, is not bound in this method: every
\* call ends in NameError after the changes have been applied.
ApplyCommandStateChanges(w, changes) ==
    LET w1 == IF "switch_provider" \in changes
              THEN LogStep(w, "state_change", "") ELSE w
        w2 == IF "pause_execution" \in changes
              THEN SetStatus(w1, "PAUSED") ELSE w1
    IN IF "resume_execution" \in changes THEN SetStatus(w2, "RUNNING") ELSE w2

\* the error field of the dict _execute_tool returns, by outcome of the call
ToolError(outcome) ==
    CASE outcome = "ok"      -> ""
      [] outcome = "missing" -> "Tool not found: bogus"
      [] outcome = "error"   -> "tool error"
      [] outcome = "violation" -> "Security violation in echo"

ToolOutcomes == {"ok", "error", "missing", "raise"}

Ret(w, ret, k) == [w |-> w, ret |-> ret, steps_completed |-> k]

\* the for loop going on to the next call after a call that failed
RECURSIVE RunToolsKeepGoing(_, _, _, _)
RunToolsKeepGoing(w, calls, i, k) ==
    IF i > Len(calls)
    THEN Ret(w, IF \E j \in 1..Len(calls) : calls[j] # "ok"
                THEN "failure" ELSE "continue", k)
    ELSE IF calls[i] = "raise" THEN Ret(w, "raised", k)
    ELSE RunToolsKeepGoing(LogStep(w, "action", ToolError(calls[i])),
                           calls, i + 1, k)

\* the for loop over the tool calls of one step; "raise" is tool.execute
\* raising with no sandbox configured
RECURSIVE RunTools(_, _, _, _)
RunTools(w, calls, i, k) ==
    IF i > Len(calls) THEN Ret(w, "continue", k)
    ELSE IF calls[i] = "raise" THEN Ret(w, "raised", k)
    ELSE LET w1 == LogStep(w, "action", ToolError(calls[i]))
         IN IF ToolError(calls[i]) # "" THEN Ret(w1, "failure", k)
            ELSE RunTools(w1, calls, i + 1, k)

\* the while loop of _run_task_loop; ds[k] is the class of the text generated
\* in iteration k.  ret "none": the loop ran out and the method returned None.
RECURSIVE RunTaskLoop(_, _, _, _)
RunTaskLoop(w, ds, k, max_steps) ==
    IF k >= max_steps THEN Ret(w, "none", k)
    ELSE
      LET sc == k + 1
          d == ds[sc]
      IN
      IF d.kind = "raise" THEN Ret(w, "raised", sc)
      ELSE IF d.kind \in CommandKinds THEN
        LET w1 == LogStep(w, "command", "")
        IN IF StateChanges(d.kind) # {}
           THEN Ret(ApplyCommandStateChanges(w1, StateChanges(d.kind)), "raised", sc)
           ELSE IF InterruptExecution(d.kind) THEN Ret(w1, "success", sc)
           ELSE RunTaskLoop(w1, ds, sc, max_steps)
      ELSE
        LET w1 == LogStep(w, "decision", "")
        IN IF d.kind = "complete" THEN Ret(w1, "success", sc)
           ELSE IF d.calls = <<>>
           THEN RunTaskLoop(LogStep(w1, "action", ""), ds, sc, max_steps)
           ELSE
             LET r == RunTools(w1,
                        SubSeq(d.calls, 1, Min(Len(d.calls), MaxToolsPerStep)), 1, sc)
             IN IF r.ret # "continue" THEN r
                ELSE IF sc >= max_steps THEN Ret(r.w, "success", sc)
                ELSE RunTaskLoop(r.w, ds, sc, max_steps)

\* the skill branch at the head of _run_task_loop: skill = "none" when the
\* profile or the registry gives no skill, else the outcome of skill.execute
SkillOutcomes == {"none", "ok", "fail", "raise"}

RunSkillOrLoop(w, skill, ds, max_steps) ==
    CASE skill = "none"  -> RunTaskLoop(w, ds, 0, max_steps)
      [] skill = "raise" -> Ret(w, "failure", 1)
      [] skill = "ok"    -> Ret(LogStep(w, "skill_execution", ""), "success", 1)
      [] skill = "fail"  -> Ret(LogStep(w, "skill_execution", ""), "failure", 1)

\* WorkerAgent.execute: result.get on None and every exception of the loop
\* end in the except branch, success False
WorkerExecute(w, skill, ds) ==
    LET r == RunSkillOrLoop(w, skill, ds, MaxSteps)
    IN [w |-> r.w, success |-> (r.ret = "success"), raised |-> FALSE]

(***************************************************************************)
(* SupervisorAgent.execute and AgentEngine (supervisor.py, engine.py).     *)
(***************************************************************************)
\* sup: "delegated" when a remote node takes the task (success without a
\* worker), "raises" when execute raises, "local" otherwise
SupervisorModes == {"local", "delegated", "raises"}

SupervisorExecute(w, sup, skill, ds) ==
    CASE sup = "delegated" -> [w |-> w, success |-> TRUE, raised |-> FALSE]
      [] sup = "raises"    -> [w |-> w, success |-> FALSE, raised |-> TRUE]
      [] sup = "local"     -> WorkerExecute(w, skill, ds)

\* AgentEngine._execute_task_with_supervisor, up to task_repo.update
ExecuteTaskWithSupervisor(task, sup, skill, ds) ==
    LET r == SupervisorExecute([task |-> task, hist |-> <<task.status>>], sup, skill, ds)
    IN IF r.raised THEN SetStatus(LogStep(r.w, "error", "exception"), "ERROR")
       ELSE IF r.success THEN SetStatus(r.w, "DONE")
       ELSE SetStatus(r.w, "ERROR")

\* AgentEngine._pick_next_task: the first PENDING task in id order, 0 if none
PickNextTask(ts) ==
    LET pending == {i \in DOMAIN ts : ts[i].status = "PENDING"}
    IN IF pending = {} THEN 0
       ELSE CHOOSE i \in pending : \A j \in pending : i <= j

(***************************************************************************)
(* IRIS context and checkpoints (src/agent/iris_context.py).               *)
(***************************************************************************)
\* current_task = None is the record with task_id 0
NoTask ==
    [task_id |-> 0, status |-> "", last_phase |-> "", summary |-> "",
     files_read |-> EmptyMap]

\* the CurrentTask execute_task builds: empty read state, empty plan
NewCurrentTask(id) ==
    [task_id |-> id, status |-> "running", last_phase |-> "INIT", summary |-> "",
     files_read |-> EmptyMap]

NoContext == [exists |-> FALSE, current_task |-> NoTask]

\* ContextManager.initialize: writes a context without a current task
InitialContext == [exists |-> TRUE, current_task |-> NoTask]

\* ContextManager.load_context: CurrentTask(**data['current_task']) keeps the
\* nested read_state and plan as the plain dicts json.load returned
LoadContext(c) ==
    [has_task |-> c.current_task.task_id # 0,
     current_task |-> c.current_task,
     read_state_type |-> "dict"]

\* ContextManager.set_current_task: load, replace current_task, write
SetCurrentTask(c, t) == [c EXCEPT !.current_task = t]

AbsentFile == [exists |-> FALSE, lines |-> <<>>]

\* a source file as the user wrote it: "import os\n"
SourceFile == [exists |-> TRUE, lines |-> <<"import os", "">>]

Paths == {"a/x.py", "b/x.py"}

\* Path(file_path).name
Basename(p) ==
    CASE p = "a/x.py" -> "x.py"
      [] p = "b/x.py" -> "x.py"

\* the name create_checkpoint builds: <task_id>/<basename>.orig.<millis>
CheckpointPath(tid, p, ms) == <<tid, Basename(p), ms>>

\* ContextManager.create_checkpoint: copies the file if it exists, and
\* returns the path in either case
CreateCheckpoint(ck, files, tid, p, ms) ==
    IF files[p].exists
    THEN [n \in (DOMAIN ck) \cup {CheckpointPath(tid, p, ms)} |->
            IF n = CheckpointPath(tid, p, ms) THEN files[p].lines ELSE ck[n]]
    ELSE ck

\* ContextManager.rollback_file: copies the checkpoint back if it exists
RollbackFile(ck, files, path, p) ==
    IF path \in DOMAIN ck
    THEN [files EXCEPT ![p] = [exists |-> TRUE, lines |-> ck[path]]]
    ELSE files

(***************************************************************************)
(* AgentLoop (src/agent/iris_loop.py).                                     *)
(***************************************************************************)
\* content.split('\n') of a file's text; a missing file reads as ''
SplitLines(f) == IF f.exists THEN f.lines ELSE <<"">>

\* _generate_edit_content(...).split('\n'): three comment lines and the
\* empty string after the final newline
NewLines == <<"# Modified for", "# Lines", "# reason", "">>

Take(seq, n) == SubSeq(seq, 1, Min(n, Len(seq)))

Drop(seq, n) == SubSeq(seq, Min(n, Len(seq)) + 1, Len(seq))

\* _apply_edit: lines[:start] + new_lines + lines[end:], written back
ApplyEditLines(lines, range, new_lines) ==
    LET start_line == Max(0, range[1] - 1)
        end_line == Min(Len(lines), range[2])
    IN Take(lines, start_line) \o new_lines \o Drop(lines, end_line)

\* _apply_edit on the file system; outcome "truncated" is the write failing
\* after open(file, 'w') emptied the file, "unopened" the open failing
ApplyEdit(files, p, range, outcome) ==
    CASE outcome = "ok" ->
           [files EXCEPT ![p] = [exists |-> TRUE,
               lines |-> ApplyEditLines(SplitLines(files[p]), range, NewLines)]]
      [] outcome = "truncated" ->
           [files EXCEPT ![p] = [exists |-> TRUE, lines |-> <<"">>]]
      [] outcome = "unopened" -> files

\* the MUST_READ_FIRST test of _execute_write_phase on the loaded context:
\* what evaluating the condition does
EnforcementCheck(loaded, p) ==
    IF ~loaded.has_task THEN "IRISEnforcementError"
    ELSE IF loaded.read_state_type = "dict" THEN "AttributeError"
    ELSE IF p \notin DOMAIN loaded.current_task.files_read
    THEN "IRISEnforcementError"
    ELSE "pass"

\* ContextManager.add_journal_entry: asdict(entry) on the dict it is given
AddJournalEntryRaises == "TypeError"

\* _execute_read_phase: the first file found is read and then recorded into
\* the loaded context's read_state (a dict: AttributeError); with no file
\* the journal entry raises
ReadPhase(files) ==
    IF \E p \in Paths : files[p].exists THEN "AttributeError"
    ELSE AddJournalEntryRaises

\* the handlers of execute_task: what is printed for an exception
ErrorCode(exc) ==
    IF exc = "IRISEnforcementError" THEN "ERR_ENFORCEMENT_VIOLATION"
    ELSE "ERR_EXECUTION_FAILED"

ErrorSummary(exc) ==
    IF exc = "IRISEnforcementError" THEN "Enforcement error"
    ELSE "Execution error"

\* the iris_task object after the handler of exc
FailedTask(t, exc) == [t EXCEPT !.status = "error", !.summary = ErrorSummary(exc)]

(***************************************************************************)
(* The inputs of a run.                                                    *)
(***************************************************************************)
\* the outcomes of the tool calls detected in one text, in text order
CallSeqs ==
    {<<"ok">>, <<"error">>, <<"missing">>, <<"raise">>, <<"ok", "error">>}

Decisions ==
    {[kind |-> k, calls |-> <<>>] :
        k \in CommandKinds \cup {"raise", "complete", "text"}}
    \cup {[kind |-> "tools", calls |-> c] : c \in CallSeqs}

\* the loop reads the next text after d: d ends neither the loop nor the run
Continues(d) ==
    RunTaskLoop([task |-> NewTask(1, "echo hello"), hist |-> <<>>],
                <<d, [kind |-> "raise", calls |-> <<>>]>>, 0, 2).steps_completed = 2

\* the texts of one run, as far as the loop reads them
DecisionSeqs ==
    {ds \in UNION {[1..n -> Decisions] : n \in 1..MaxSteps} :
        /\ \A i \in 1..(Len(ds) - 1) : Continues(ds[i])
        /\ Len(ds) < MaxSteps => ~Continues(ds[Len(ds)])}

\* one run: a delegation, a raising supervisor, a skill, or the texts the
\* provider generates step by step (read only when the loop is entered)
RunInputs ==
    {[sup |-> m, skill |-> "none", ds |-> <<>>] : m \in {"delegated", "raises"}}
    \cup {[sup |-> "local", skill |-> k, ds |-> <<>>] : k \in SkillOutcomes \ {"none"}}
    \cup {[sup |-> "local", skill |-> "none", ds |-> d] : d \in DecisionSeqs}

(***************************************************************************)
(* Actions of the task lifecycle.                                          *)
(***************************************************************************)
TaskInit ==
    /\ tasks = EmptyMap
    /\ next_id = 1
    /\ disk = EmptyMap          \* MemoryStore._load writes {} for a new file
    /\ repo_pc = "idle"
    /\ issued_max = 0
    /\ runs = 0

\* TaskRepository.create up to the first write of _save_tasks
Create(goal) ==
    /\ repo_pc = "idle"
    /\ next_id <= MaxId
    /\ LET id == next_id
           ts == [i \in (DOMAIN tasks) \cup {id} |->
                    IF i = id THEN NewTask(id, goal) ELSE tasks[i]]
       IN /\ tasks' = ts
          /\ next_id' = id + 1
          /\ disk' = SaveTasksMap(disk, ts)
          /\ issued_max' = Max(issued_max, id)
    /\ repo_pc' = "save_next_id"
    /\ UNCHANGED <<runs, irisVars, storeVars, metricsVars, extVars>>

\* the second write of _save_tasks; create, update and delete return after
\* it, and execute_task then stores its CurrentTask with set_current_task
SaveNextId ==
    /\ repo_pc = "save_next_id"
    /\ disk' = SaveNextIdValue(disk, next_id)
    /\ repo_pc' = "idle"
    /\ IF iris_task # NoTask
       THEN /\ ctx' = SetCurrentTask(ctx, iris_task)
            /\ iris_task' = NoTask
       ELSE UNCHANGED <<ctx, iris_task>>
    /\ UNCHANGED <<tasks, next_id, issued_max, runs>>
    /\ UNCHANGED <<iris_out, fs, ckpt, clock, edit, storeVars, metricsVars, extVars>>

\* the process ends (a crash when it is between the two writes) and a new
\* TaskRepository is constructed over the same file
Restart ==
    /\ tasks' = LoadTasks(disk)
    /\ next_id' = LoadNextId(disk)
    /\ repo_pc' = "idle"
    /\ iris_task' = NoTask
    /\ UNCHANGED <<disk, issued_max, runs>>
    /\ UNCHANGED <<ctx, iris_out, fs, ckpt, clock, edit, storeVars, metricsVars, extVars>>

\* TaskRepository.delete up to the first write of _save_tasks
Delete(id) ==
    /\ repo_pc = "idle"
    /\ IF id \in DOMAIN tasks
       THEN LET ts == [i \in (DOMAIN tasks) \ {id} |-> tasks[i]]
            IN /\ tasks' = ts
               /\ disk' = SaveTasksMap(disk, ts)
               /\ repo_pc' = "save_next_id"
       ELSE UNCHANGED <<tasks, disk, repo_pc>>
    /\ UNCHANGED <<next_id, issued_max, runs, irisVars, storeVars, metricsVars, extVars>>

\* AgentEngine.run_single_task(task_id) with its task_repo.update, up to the
\* first write of _save_tasks; arg = 0 is the call without a task id
RunSingleTask(arg, in) ==
    /\ repo_pc = "idle"
    /\ LET id == IF arg # 0 THEN arg ELSE PickNextTask(tasks)
       IN /\ id \in DOMAIN tasks
          /\ runs < MaxRuns
          /\ LET w == ExecuteTaskWithSupervisor(tasks[id], in.sup, in.skill, in.ds)
                 ts == [tasks EXCEPT ![id] = w.task]
             IN /\ tasks' = ts
                /\ disk' = SaveTasksMap(disk, ts)
    /\ repo_pc' = "save_next_id"
    /\ runs' = runs + 1
    /\ UNCHANGED <<next_id, issued_max, irisVars, storeVars, metricsVars, extVars>>

\* the tail execute_task shares between its handlers: the task becomes ERROR,
\* task_repo.update starts its save, and the CurrentTask waits to be stored
IrisFail(id, exc) ==
    LET ts == [tasks EXCEPT ![id] = UpdateStatus(@, "ERROR")]
    IN /\ tasks' = ts
       /\ disk' = SaveTasksMap(disk, ts)
       /\ repo_pc' = "save_next_id"
       /\ ctx' = SetCurrentTask(ctx, NewCurrentTask(id))
       /\ iris_task' = FailedTask(NewCurrentTask(id), exc)
       /\ iris_out' = ErrorCode(exc)

\* AgentLoop.execute_task(task_id), up to the first write of _save_tasks
IrisExecuteTask(id) ==
    /\ repo_pc = "idle"
    /\ IF id \notin DOMAIN tasks
       THEN /\ iris_out' = "ERR_TASK_NOT_FOUND"
            /\ UNCHANGED <<tasks, disk, repo_pc, ctx, iris_task>>
       ELSE IF ~ctx.exists
       THEN /\ ctx' = InitialContext
            /\ iris_out' = ""
            /\ UNCHANGED <<tasks, disk, repo_pc, iris_task>>
       ELSE IrisFail(id, ReadPhase(fs))
    /\ UNCHANGED <<next_id, issued_max, runs>>
    /\ UNCHANGED <<fs, ckpt, clock, edit, storeVars, metricsVars, extVars>>

(***************************************************************************)
(* The IRIS WRITE phase.                                                   *)
(***************************************************************************)
MaxClock == 1       \* milliseconds the clock may advance
MaxLines == 2       \* an edit is applied to files of at most this many lines

Ranges == {<<1, 1>>, <<2, 5>>}

Edits == {[file |-> p, range |-> r] : p \in Paths, r \in Ranges}

\* plan.intended_edits
Plans == {<<>>} \cup {<<e>> : e \in Edits}

\* create_checkpoint(task.id, ...) with the int id of a repository task:
\* self.checkpoints_dir / task_id
CreateCheckpointRaises == "TypeError"

\* _execute_write_phase(task, plan) on the persisted context: the exception
\* it ends with. The first edit is stopped by the enforcement test or, past
\* it, by create_checkpoint; with no edit the journal entry raises
WritePhaseRaises(c, plan) ==
    IF plan = <<>> THEN AddJournalEntryRaises
    ELSE LET chk == EnforcementCheck(LoadContext(c), plan[1].file)
         IN IF chk # "pass" THEN chk ELSE CreateCheckpointRaises

\* _execute_write_phase(task, plan) called on the persisted context, what it
\* raises handled as execute_task handles it, up to the first write of
\* _save_tasks
WritePhase(id, plan) ==
    /\ repo_pc = "idle"
    /\ id \in DOMAIN tasks
    /\ ctx.exists
    /\ LET exc == WritePhaseRaises(ctx, plan)
           ts == [tasks EXCEPT ![id] = UpdateStatus(@, "ERROR")]
       IN /\ tasks' = ts
          /\ disk' = SaveTasksMap(disk, ts)
          /\ repo_pc' = "save_next_id"
          /\ iris_task' = FailedTask(NewCurrentTask(id), exc)
          /\ iris_out' = ErrorCode(exc)
    /\ UNCHANGED <<next_id, issued_max, runs>>
    /\ UNCHANGED <<ctx, fs, ckpt, clock, edit, storeVars, metricsVars, extVars>>

NoEdit ==
    [result |-> "none", file |-> "", path |-> <<>>,
     before |-> AbsentFile, after |-> AbsentFile]

\* lines 215-234 of _execute_write_phase for one edit, with a task id that
\* create_checkpoint accepts: checkpoint, apply, verify, roll back
WriteEdit(files, ck, tid, e, ms, outcome, verify_ok) ==
    LET path == CheckpointPath(tid, e.file, ms)
        ck1 == CreateCheckpoint(ck, files, tid, e.file, ms)
        applied == ApplyEdit(files, e.file, e.range, outcome)
        rolled == outcome # "ok" \/ ~verify_ok
        files1 == IF rolled THEN RollbackFile(ck1, applied, path, e.file)
                  ELSE applied
    IN [fs |-> files1, ckpt |-> ck1,
        edit |-> [result |-> IF rolled THEN "rolled_back" ELSE "verified",
                  file |-> e.file, path |-> path,
                  before |-> files[e.file], after |-> files1[e.file]]]

ApplyOutcomes == {"ok", "truncated", "unopened"}

TaskIds == {"t1"}

WriteOneEdit(tid, e, outcome, verify_ok) ==
    /\ Len(SplitLines(fs[e.file])) <= MaxLines
    /\ LET r == WriteEdit(fs, ckpt, tid, e, clock, outcome, verify_ok)
       IN /\ fs' = r.fs
          /\ ckpt' = r.ckpt
          /\ edit' = r.edit
    /\ UNCHANGED <<taskVars, ctx, iris_task, iris_out, clock>>
    /\ UNCHANGED <<storeVars, metricsVars, extVars>>

\* time passes
Tick ==
    /\ clock < MaxClock
    /\ clock' = clock + 1
    /\ UNCHANGED <<taskVars, ctx, iris_task, iris_out, fs, ckpt, edit>>
    /\ UNCHANGED <<storeVars, metricsVars, extVars>>

\* the user removes a project file
RemoveFile(p) ==
    /\ fs[p].exists
    /\ fs' = [fs EXCEPT ![p] = AbsentFile]
    /\ UNCHANGED <<taskVars, ctx, iris_task, iris_out, ckpt, clock, edit>>
    /\ UNCHANGED <<storeVars, metricsVars, extVars>>

\* the user saves a project file
WriteFile(p) ==
    /\ fs[p] # SourceFile
    /\ fs' = [fs EXCEPT ![p] = SourceFile]
    /\ UNCHANGED <<taskVars, ctx, iris_task, iris_out, ckpt, clock, edit>>
    /\ UNCHANGED <<storeVars, metricsVars, extVars>>

IrisInit ==
    /\ ctx = NoContext
    /\ iris_task = NoTask
    /\ iris_out = ""
    /\ fs = [p \in Paths |-> IF p = "a/x.py" THEN SourceFile ELSE AbsentFile]
    /\ ckpt = EmptyMap
    /\ clock = 0
    /\ edit = NoEdit

(***************************************************************************)
(* Concurrent savers of one persisted file (MemoryStore._save,             *)
(* ModelMetrics._save): open the fixed ".tmp" sibling for writing, write,  *)
(* close, rename over the target. No lock is taken.                        *)
(***************************************************************************)
MaxSaves == 3       \* _save calls started over the whole run
NChunks == 2        \* write() calls one json.dump makes

Savers == {"s1", "s2"}

\* the k-th chunk of the content written by save n
Chunk(n, k) == [save |-> n, part |-> k]

\* the complete content of save n
CompleteContent(n) == [k \in 1..NChunks |-> Chunk(n, k)]

Hole == [save |-> 0, part |-> 0]

\* write at a descriptor's offset: bytes between the end of the file and
\* the offset read as a hole
WriteAt(content, offset, c) ==
    [k \in 1..Max(Len(content), offset + 1) |->
        IF k = offset + 1 THEN c
        ELSE IF k <= Len(content) THEN content[k] ELSE Hole]

IdleSaver == [pc |-> "idle", fd |-> 0, save |-> 0, written |-> 0]

\* inodes still named by a directory entry or held open by a saver
Live(ns, ss) == {ns.target, ns.tmp} \cup {ss[w].fd : w \in Savers}

Collect(ino, ns, ss) == [i \in (DOMAIN ino) \cap Live(ns, ss) |-> ino[i]]

StoreInit ==
    /\ inodes = [i \in {1} |-> CompleteContent(1)]
    /\ names = [target |-> 1, tmp |-> 0]
    /\ savers = [w \in Savers |-> IdleSaver]
    /\ saves = 1                \* the save _load made for the missing file
    /\ observed = CompleteContent(1)

\* open(temp_path, "w"): creates the file, or truncates the existing one
OpenTmp(w) ==
    /\ savers[w].pc = "idle"
    /\ saves < MaxSaves
    /\ saves' = saves + 1
    /\ LET n == saves + 1
           i == IF names.tmp = 0 THEN n ELSE names.tmp
       IN /\ inodes' = [j \in (DOMAIN inodes) \cup {i} |->
                          IF j = i THEN <<>> ELSE inodes[j]]
          /\ names' = [names EXCEPT !.tmp = i]
          /\ savers' = [savers EXCEPT ![w] =
                          [pc |-> "writing", fd |-> i, save |-> n, written |-> 0]]
    /\ UNCHANGED <<observed, taskVars, irisVars, metricsVars, extVars>>

\* one write() of json.dump through the open descriptor
WriteChunk(w) ==
    /\ savers[w].pc = "writing"
    /\ savers[w].written < NChunks
    /\ LET sv == savers[w]
       IN /\ inodes' = [inodes EXCEPT ![sv.fd] =
                          WriteAt(@, sv.written, Chunk(sv.save, sv.written + 1))]
          /\ savers' = [savers EXCEPT ![w].written = sv.written + 1]
    /\ UNCHANGED <<names, saves, observed, taskVars, irisVars, metricsVars, extVars>>

\* the with block ends: the descriptor is flushed and closed
CloseTmp(w) ==
    /\ savers[w].pc = "writing"
    /\ savers[w].written = NChunks
    /\ savers' = [savers EXCEPT ![w].pc = "closed", ![w].fd = 0]
    /\ inodes' = Collect(inodes, names, savers')
    /\ UNCHANGED <<names, saves, observed, taskVars, irisVars, metricsVars, extVars>>

\* temp_path.replace(filepath); with the temp name gone it raises and the
\* handler finds no temp file to unlink
Replace(w) ==
    /\ savers[w].pc = "closed"
    /\ LET ss == [savers EXCEPT ![w] = IdleSaver]
           ns == IF names.tmp = 0 THEN names
                 ELSE [target |-> names.tmp, tmp |-> 0]
       IN /\ savers' = ss
          /\ names' = ns
          /\ inodes' = Collect(inodes, ns, ss)
    /\ UNCHANGED <<saves, observed, taskVars, irisVars, metricsVars, extVars>>

\* a reader's open(filepath) and read
Load ==
    /\ observed' = inodes[names.target]
    /\ UNCHANGED <<inodes, names, savers, saves, taskVars, irisVars, metricsVars, extVars>>

(***************************************************************************)
(* ModelMetrics (src/agent/model_metrics.py).                              *)
(***************************************************************************)
MaxRequests == 3    \* record_generation calls per provider

Providers == {"p1", "p2"}

\* the entry record_generation creates for a provider it has not seen
NewMetrics ==
    [total_requests |-> 0, successful_requests |-> 0, failed_requests |-> 0,
     rate_limit_hit |-> FALSE]
\* record_generation counting a failure only in total_requests
RecordCountersTotalOnly(m, success) ==
    IF success
    THEN [m EXCEPT !.total_requests = @ + 1, !.successful_requests = @ + 1]
    ELSE [m EXCEPT !.total_requests = @ + 1]

\* the counter updates of record_generation
RecordCounters(m, success) ==
    IF success
    THEN [m EXCEPT !.total_requests = @ + 1, !.successful_requests = @ + 1]
    ELSE [m EXCEPT !.total_requests = @ + 1, !.failed_requests = @ + 1]

MetricsInit ==
    /\ metrics = EmptyMap
    /\ metrics_file = EmptyMap

\* ModelMetrics.record_generation, with its _save
RecordGeneration(p, success) ==
    /\ p \in DOMAIN metrics => metrics[p].total_requests < MaxRequests
    /\ LET m == IF p \in DOMAIN metrics THEN metrics[p] ELSE NewMetrics
           ms == [q \in (DOMAIN metrics) \cup {p} |->
                    IF q = p THEN RecordCounters(m, success) ELSE metrics[q]]
       IN /\ metrics' = ms
          /\ metrics_file' = ms
    /\ UNCHANGED <<taskVars, irisVars, storeVars, extVars>>

\* ModelMetrics.check_rate_limit; limited says whether a header value holds
\* one of the indicators. An unknown provider raises KeyError before _save
CheckRateLimit(p, limited) ==
    /\ IF limited /\ p \in DOMAIN metrics
       THEN /\ metrics' = [metrics EXCEPT ![p].rate_limit_hit = TRUE]
            /\ metrics_file' = metrics'
       ELSE UNCHANGED <<metrics, metrics_file>>
    /\ UNCHANGED <<taskVars, irisVars, storeVars, extVars>>

\* a new ModelMetrics is constructed: _load
ReloadMetrics ==
    /\ metrics' = metrics_file
    /\ UNCHANGED <<metrics_file, taskVars, irisVars, storeVars, extVars>>

(***************************************************************************)
(* AccountManager and AccountRotator (src/agent/auth).                     *)
(***************************************************************************)
MaxAcctTicks == 3   \* clock ticks of the account model
TickSeconds == 3600 \* seconds in one tick

\* accounts.py with `import time` in it: time.time() gives the clock
TimeImported == TRUE

\* accounts.py binds no name `time`: every time.time() raises NameError
TimeBound == FALSE

\* the cooldown mark_used sets
MarkUsedCooldown == 7200

AcctProviders == {"p", "q"}

AccountIds == {"a", "b", "c"}

Account(id, priority, cooldown_until) ==
    [account_id |-> id, priority |-> priority, cooldown_until |-> cooldown_until]

\* the test get_next_available and get_account_stats make on one account
AccountAvailable(a, now) == a.cooldown_until = 0 \/ a.cooldown_until < now

\* the sort key of get_next_available precedes, ties keep list order
KeyBefore(accs, i, j) ==
    \/ accs[i].priority > accs[j].priority
    \/ /\ accs[i].priority = accs[j].priority
       /\ \/ accs[i].cooldown_until < accs[j].cooldown_until
          \/ accs[i].cooldown_until = accs[j].cooldown_until /\ i < j

\* the loop of get_next_available: the first available account in sorted
\* order, "None" when there is none
FirstAvailable(accs, now) ==
    LET avail == {i \in 1..Len(accs) : AccountAvailable(accs[i], now)}
    IN IF avail = {} THEN "None"
       ELSE LET i == CHOOSE k \in avail : \A j \in avail \ {k} : KeyBefore(accs, k, j)
            IN accs[i].account_id

\* AccountManager.get_next_available: what the call gives
GetNextAvailable(acs, provider, now) ==
    IF provider \notin DOMAIN acs THEN "None"
    ELSE IF ~TimeBound THEN "NameError"
    ELSE FirstAvailable(acs[provider], now)

\* index of the first account with the id, 0 if none
IndexOf(accs, id) ==
    IF \E i \in 1..Len(accs) : accs[i].account_id = id
    THEN CHOOSE i \in 1..Len(accs) :
            /\ accs[i].account_id = id
            /\ \A j \in 1..(i - 1) : accs[j].account_id # id
    ELSE 0

\* mark_used and set_cooldown: [accounts, ret]; the account is found before
\* time.time() is evaluated
SetCooldownFor(acs, provider, id, now, seconds) ==
    IF provider \notin DOMAIN acs \/ IndexOf(acs[provider], id) = 0
    THEN [accounts |-> acs, ret |-> "False", saved |-> FALSE]
    ELSE IF ~TimeBound
    THEN [accounts |-> acs, ret |-> "NameError", saved |-> FALSE]
    ELSE [accounts |-> [acs EXCEPT ![provider][IndexOf(acs[provider], id)].cooldown_until
                                      = now + seconds],
          ret |-> "True", saved |-> TRUE]

MarkUsed(acs, provider, id, now) ==
    SetCooldownFor(acs, provider, id, now, MarkUsedCooldown)

RemoveAt(accs, i) == SubSeq(accs, 1, i - 1) \o SubSeq(accs, i + 1, Len(accs))

AcctOut(op, provider, id, ret) ==
    [op |-> op, provider |-> provider, account_id |-> id, ret |-> ret]

\* data/accounts.json as found at start: two accounts of provider p
AcctInit ==
    /\ accounts = [p \in {"p"} |-> <<Account("a", 1, 0), Account("b", 1, 0)>>]
    /\ acct_file = accounts
    /\ acct_now = 0
    /\ acct_out = AcctOut("", "", "", "")
    /\ marked = [id \in AccountIds |-> -1]

\* AccountManager.add_account on the map acs with the file content file:
\* the provider's list is created, then the account literal evaluates
\* time.time(); [accounts, file, ret]
AddAccountTo(acs, file, provider, id, priority) ==
    LET made == IF provider \in DOMAIN acs THEN acs
                ELSE [q \in (DOMAIN acs) \cup {provider} |->
                        IF q = provider THEN <<>> ELSE acs[q]]
    IN IF ~TimeBound
       THEN [accounts |-> made, file |-> file, ret |-> "NameError"]
       ELSE LET added == [made EXCEPT ![provider] =
                             Append(@, Account(id, priority, 0))]
            IN [accounts |-> added, file |-> added, ret |-> "True"]

\* AccountManager.remove_account with its _save: [accounts, file, ret]
RemoveAccountFrom(acs, file, provider, id) ==
    IF provider \in DOMAIN acs /\ IndexOf(acs[provider], id) # 0
    THEN LET removed == [acs EXCEPT ![provider] = RemoveAt(@, IndexOf(@, id))]
         IN [accounts |-> removed, file |-> removed, ret |-> "True"]
    ELSE [accounts |-> acs, file |-> file, ret |-> "False"]

\* AccountManager.add_account
AddAccount(provider, id, priority) ==
    /\ LET r == AddAccountTo(accounts, acct_file, provider, id, priority)
       IN /\ Len(r.accounts[provider]) <= Cardinality(AccountIds)
          /\ accounts' = r.accounts
          /\ acct_file' = r.file
          /\ acct_out' = AcctOut("add_account", provider, id, r.ret)
    /\ UNCHANGED <<acct_now, marked, acctFrame>>

\* AccountManager.get_next_available
GetNext(provider) ==
    /\ acct_out' = AcctOut("get_next_available", provider, "",
                           GetNextAvailable(accounts, provider, acct_now))
    /\ UNCHANGED <<accounts, acct_file, acct_now, marked, acctFrame>>

\* AccountManager.mark_used, with its _save
DoMarkUsed(provider, id) ==
    /\ LET r == MarkUsed(accounts, provider, id, acct_now)
       IN /\ accounts' = r.accounts
          /\ acct_file' = IF r.saved THEN r.accounts ELSE acct_file
          /\ acct_out' = AcctOut("mark_used", provider, id, r.ret)
          /\ marked' = IF r.ret # "False" THEN [marked EXCEPT ![id] = acct_now]
                       ELSE marked
    /\ UNCHANGED <<acct_now, acctFrame>>

\* AccountManager.set_cooldown, with its _save
DoSetCooldown(provider, id, seconds) ==
    /\ LET r == SetCooldownFor(accounts, provider, id, acct_now, seconds)
       IN /\ accounts' = r.accounts
          /\ acct_file' = IF r.saved THEN r.accounts ELSE acct_file
          /\ acct_out' = AcctOut("set_cooldown", provider, id, r.ret)
          /\ marked' = IF r.ret = "True" THEN [marked EXCEPT ![id] = -1] ELSE marked
    /\ UNCHANGED <<acct_now, acctFrame>>

\* AccountManager.remove_account, with its _save
RemoveAccount(provider, id) ==
    /\ LET r == RemoveAccountFrom(accounts, acct_file, provider, id)
       IN /\ accounts' = r.accounts
          /\ acct_file' = r.file
          /\ acct_out' = AcctOut("remove_account", provider, id, r.ret)
          /\ marked' = IF r.ret = "True" THEN [marked EXCEPT ![id] = -1]
                       ELSE marked
    /\ UNCHANGED <<acct_now, acctFrame>>

\* AccountRotator.select_account: get_next_available, then mark_used
SelectAccount(provider) ==
    /\ LET got == GetNextAvailable(accounts, provider, acct_now)
       IN IF got \in {"None", "NameError"}
          THEN /\ acct_out' = AcctOut("select_account", provider, "", got)
               /\ UNCHANGED <<accounts, acct_file, marked>>
          ELSE LET r == MarkUsed(accounts, provider, got, acct_now)
               IN /\ accounts' = r.accounts
                  /\ acct_file' = IF r.saved THEN r.accounts ELSE acct_file
                  /\ acct_out' = AcctOut("select_account", provider, got, got)
                  /\ marked' = [marked EXCEPT ![got] = acct_now]
    /\ UNCHANGED <<acct_now, acctFrame>>

\* a new AccountManager is constructed: _load
ReloadAccounts ==
    /\ accounts' = acct_file
    /\ UNCHANGED <<acct_file, acct_now, acct_out, marked, acctFrame>>

\* time passes
AcctTick ==
    /\ acct_now < MaxAcctTicks * TickSeconds
    /\ acct_now' = acct_now + TickSeconds
    /\ UNCHANGED <<accounts, acct_file, acct_out, marked, acctFrame>>

(***************************************************************************)
(* ModelRouter, RouterPolicy and the provider health of ModelMetrics       *)
(* (model_router.py, router_policy.py, model_metrics.py). Scores are kept  *)
(* as exact fractions: a health score h over a provider with t requests is *)
(* the integer 10000 * t * h, a policy score the integer 100000 * t * h.   *)
(***************************************************************************)
MaxRouterRequests == 2  \* record_generation calls over all providers
MaxRouterTicks == 1     \* clock ticks of the router model
RouterTick == 120       \* seconds in one tick

RateLimitCooldown == 120

BuiltinProviders == <<"dummy", "openai">>

RouterNames == {"dummy", "openai", "A", "B"}

\* the names handed to generate as the explicit provider
ExplicitNames == {"None", "A"}

Latencies == {100, 6000}

\* the entry record_generation creates, with the fields the health reads
NewHealthMetrics ==
    [total_requests |-> 0, successful_requests |-> 0, failed_requests |-> 0,
     total_latency_ms |-> 0, rate_limit_hit |-> FALSE, cooldown_until |-> 0]

\* cooldown_until is None (0 here) or a time
InCooldown(m, now) == m.cooldown_until # 0 /\ now < m.cooldown_until

\* health_score of a provider that has an entry, times 10000 * total_requests
HealthScore(m, now) ==
    LET t == Max(m.total_requests, 1)
        s == m.successful_requests
        base == IF m.rate_limit_hit THEN Max(500 * t, 5000 * s)
                ELSE IF 10 * m.failed_requests > 2 * m.total_requests
                     THEN Max(1000 * t, 7000 * s)
                     ELSE 10000 * s
        cooled == IF InCooldown(m, now) THEN base \div 2 ELSE base
    IN IF m.total_latency_ms > 5000 * m.total_requests
       THEN (cooled * 4) \div 5 ELSE cooled

\* get_provider_health: an unknown provider gets the short dict, which has
\* no "in_cooldown" key
GetProviderHealth(ms, p, now) ==
    IF p \notin DOMAIN ms
    THEN [known |-> FALSE, available |-> TRUE, in_cooldown |-> FALSE,
          score |-> 10000, den |-> 1]
    ELSE [known |-> TRUE,
          available |-> HealthScore(ms[p], now) > 5000 * Max(ms[p].total_requests, 1),
          in_cooldown |-> InCooldown(ms[p], now),
          score |-> HealthScore(ms[p], now),
          den |-> Max(ms[p].total_requests, 1)]

\* is_provider_available: health["available"] and not health["in_cooldown"]
IsProviderAvailable(ms, p, now) ==
    LET h == GetProviderHealth(ms, p, now)
    IN IF ~h.available THEN "False"
       ELSE IF ~h.known THEN "KeyError"
       ELSE IF h.in_cooldown THEN "False" ELSE "True"

\* RouterPolicy._get_provider asks a fresh ModelRouter, which knows the
\* built-in providers and falls back to the dummy; only openai streams
SupportsStreaming(p) == p = "openai"

\* RouterPolicy._score_provider of an available provider with an entry,
\* times 100000 * total_requests
ScoreProvider(ms, p, now) ==
    LET m == ms[p]
        t == m.total_requests
        latency == IF m.total_latency_ms < 2000 * t THEN 3
                   ELSE IF m.total_latency_ms < 5000 * t THEN 2
                   ELSE IF m.total_latency_ms < 10000 * t THEN 1 ELSE 0
        rate == IF 10 * m.successful_requests > 9 * t THEN 2
                ELSE IF 10 * m.successful_requests > 7 * t THEN 1 ELSE 0
        stream == IF SupportsStreaming(p) THEN 1 ELSE 0
        penalty == IF m.rate_limit_hit THEN 3 ELSE 0
    IN [num |-> Min(4 * HealthScore(m, now)
                      + 10000 * t * (latency + rate + stream - penalty),
                    100000 * t),
        den |-> t]

\* the providers of ps that is_provider_available accepts, in order
AvailableProviders(ps, ms, now) ==
    SelectSeq(ps, LAMBDA p : IsProviderAvailable(ms, p, now) = "True")

\* RouterPolicy.select_provider: the first provider of highest score (the
\* sort is stable), None without available providers, KeyError when the
\* availability of a provider without an entry is asked
SelectProvider(ps, ms, now) ==
    IF \E i \in 1..Len(ps) : IsProviderAvailable(ms, ps[i], now) = "KeyError"
    THEN "KeyError"
    ELSE LET av == AvailableProviders(ps, ms, now)
             sc(i) == ScoreProvider(ms, av[i], now)
             Beats(i, j) == sc(i).num * sc(j).den > sc(j).num * sc(i).den
         IN IF av = <<>> THEN "None"
            ELSE av[CHOOSE i \in 1..Len(av) :
                      /\ \A j \in 1..Len(av) : ~Beats(j, i)
                      /\ \A j \in 1..(i - 1) : Beats(i, j)]

InSeq(x, seq) == \E i \in 1..Len(seq) : seq[i] = x

\* get_provider falling back to the default provider
GetProviderDefaultFallback(ps, default, name) ==
    LET provider_name == IF name \in {"None", ""} THEN default ELSE name
    IN IF InSeq(provider_name, ps) THEN provider_name ELSE default

\* ModelRouter.get_provider: the named or default provider, the dummy when
\* the name is not registered
GetProvider(ps, default, name) ==
    LET provider_name == IF name \in {"None", ""} THEN default ELSE name
    IN IF InSeq(provider_name, ps) THEN provider_name ELSE "dummy"

RouterOut(explicit, selected, invoked, ret) ==
    [explicit |-> explicit, selected |-> selected, invoked |-> invoked,
     ret |-> ret]

\* ModelRouter.generate; the result names the policy's choice, the provider
\* whose generate ran, and what the call returned or raised
ModelRouterGenerate(ps, cfg, ms, now, explicit, outcome) ==
    LET routed == cfg.router_policy /\ explicit \in {"None", ""}
        sel == IF routed THEN SelectProvider(ps, ms, now) ELSE "None"
        provider_name == IF routed /\ sel # "None" THEN sel
                         ELSE IF routed THEN cfg.default ELSE explicit
        provider == GetProvider(ps, cfg.default, provider_name)
    IN IF sel = "KeyError"
       THEN RouterOut(explicit, sel, "None", "KeyError")
       ELSE RouterOut(explicit, sel, provider,
                      IF cfg.model_metrics THEN "AttributeError"
                      ELSE IF outcome = "ok" THEN "response"
                      ELSE "ProviderError")

\* OPENAI_API_KEY is not set: the default provider is the dummy
RouterConfig(policy, with_metrics) ==
    [router_policy |-> policy, model_metrics |-> with_metrics,
     default |-> "dummy"]

\* the engine's construction: metrics and policy attached
RouterInit ==
    /\ router_providers = BuiltinProviders
    /\ router_cfg = RouterConfig(TRUE, TRUE)
    /\ router_metrics = EmptyMap
    /\ router_now = 0
    /\ router_out = RouterOut("", "", "", "")

\* ModelRouter.__init__
NewRouter(policy, with_metrics) ==
    /\ router_providers' = BuiltinProviders
    /\ router_cfg' = RouterConfig(policy, with_metrics)
    /\ UNCHANGED <<router_metrics, router_now, router_out, routerFrame>>

\* ModelRouter.register: a new key goes to the end of the dict
Register(name) ==
    /\ router_providers' = IF InSeq(name, router_providers) THEN router_providers
                           ELSE Append(router_providers, name)
    /\ UNCHANGED <<router_cfg, router_metrics, router_now, router_out, routerFrame>>

RouterRequests ==
    LET RECURSIVE Sum(_)
        Sum(S) == IF S = {} THEN 0
                  ELSE LET p == CHOOSE q \in S : TRUE
                       IN router_metrics[p].total_requests + Sum(S \ {p})
    IN Sum(DOMAIN router_metrics)

\* ModelMetrics.record_generation on the metrics behind the policy
RouterRecord(p, success, latency_ms) ==
    /\ RouterRequests < MaxRouterRequests
    /\ LET m == IF p \in DOMAIN router_metrics THEN router_metrics[p]
                ELSE NewHealthMetrics
           n == [m EXCEPT !.total_requests = @ + 1,
                          !.successful_requests = IF success THEN @ + 1 ELSE @,
                          !.failed_requests = IF success THEN @ ELSE @ + 1,
                          !.total_latency_ms = @ + latency_ms]
       IN router_metrics' = [q \in (DOMAIN router_metrics) \cup {p} |->
                                IF q = p THEN n ELSE router_metrics[q]]
    /\ UNCHANGED <<router_providers, router_cfg, router_now, router_out, routerFrame>>

\* ModelMetrics.check_rate_limit with a header that names a rate limit; a
\* provider without an entry raises KeyError
RouterRateLimit(p) ==
    /\ router_metrics' =
          IF p \in DOMAIN router_metrics
          THEN [router_metrics EXCEPT ![p].rate_limit_hit = TRUE,
                                      ![p].cooldown_until = router_now + RateLimitCooldown]
          ELSE router_metrics
    /\ UNCHANGED <<router_providers, router_cfg, router_now, router_out, routerFrame>>

Generate(explicit, outcome) ==
    /\ router_out' = ModelRouterGenerate(router_providers, router_cfg,
                                         router_metrics, router_now,
                                         explicit, outcome)
    /\ UNCHANGED <<router_providers, router_cfg, router_metrics, router_now, routerFrame>>

RouterClock ==
    /\ router_now < MaxRouterTicks * RouterTick
    /\ router_now' = router_now + RouterTick
    /\ UNCHANGED <<router_providers, router_cfg, router_metrics, router_out, routerFrame>>

(***************************************************************************)
(* SupervisorAgent.run_all_pending and the supervisor's bookkeeping        *)
(* (src/agent/agents/supervisor.py).                                       *)
(***************************************************************************)
MaxWorkers == 2     \* max_workers handed to the supervisor
MaxSupTasks == 3    \* tasks created in the supervisor's repository

\* SupervisorAgent.__init__: the workers are built, no thread is started
SupervisorNew(max_workers) ==
    [max_workers |-> max_workers, workers |-> max_workers,
     task_queue |-> <<>>, active_tasks |-> {}, status |-> "idle"]

PendingIds(ts) == {id \in DOMAIN ts : ts[id] = "PENDING"}

\* run_all_pending taking every pending task into active_tasks at once
RunAllPendingUnbounded(s, ts) ==
    [sup |-> [s EXCEPT !.active_tasks = PendingIds(ts)], ret |-> "results"]

\* run_all_pending: its first statement calls process_pending_tasks, which
\* the class does not define
SupervisorRunAllPending(s, ts) ==
    [sup |-> s, ret |-> "AttributeError"]

\* shutdown: its first statement sets self._shutdown_event, an attribute that
\* __init__ never creates; the status assignment and the joins are not reached
SupervisorShutdown(s) ==
    [sup |-> s, ret |-> "AttributeError"]

\* SupervisorAgent._execute_locally through the engine: without workers the
\* task fails, otherwise workers[0] executes it
ExecuteLocally(s, success) == s.workers > 0 /\ success

SupOut(op, pending, ret) == [op |-> op, pending |-> pending, ret |-> ret]

SupInit ==
    /\ supervisor = SupervisorNew(1)
    /\ sup_tasks = EmptyMap
    /\ sup_out = SupOut("", {}, "")

NewSupervisor(max_workers) ==
    /\ supervisor' = SupervisorNew(max_workers)
    /\ UNCHANGED <<sup_tasks, sup_out, supFrame>>

\* TaskRepository.create as the supervisor's repository sees it
SupCreate ==
    /\ Cardinality(DOMAIN sup_tasks) < MaxSupTasks
    /\ sup_tasks' = [id \in 1..(Cardinality(DOMAIN sup_tasks) + 1) |->
                       IF id \in DOMAIN sup_tasks THEN sup_tasks[id] ELSE "PENDING"]
    /\ UNCHANGED <<supervisor, sup_out, supFrame>>

\* AgentEngine.run_single_task on the first pending task
SupRunSingle(success) ==
    /\ PendingIds(sup_tasks) # {}
    /\ LET id == CHOOSE i \in PendingIds(sup_tasks) :
                    \A j \in PendingIds(sup_tasks) : i <= j
       IN sup_tasks' = [sup_tasks EXCEPT ![id] =
                           IF ExecuteLocally(supervisor, success) THEN "DONE" ELSE "ERROR"]
    /\ UNCHANGED <<supervisor, sup_out, supFrame>>

\* AgentEngine.run_all_pending: SupervisorAgent.run_all_pending
RunAllPending ==
    /\ LET r == SupervisorRunAllPending(supervisor, sup_tasks)
       IN /\ supervisor' = r.sup
          /\ sup_out' = SupOut("run_all_pending", PendingIds(sup_tasks), r.ret)
    /\ UNCHANGED <<sup_tasks, supFrame>>

(***************************************************************************)
(* One run of WorkerAgent.execute under the engine, by the texts the       *)
(* provider generates (executor.py, engine.py). A text is what the loop    *)
(* looks at: the command trigger it holds, one word of it, and the tool    *)
(* calls the pattern of _detect_tool_calls finds.                          *)
(***************************************************************************)
MaxWorkerSteps == 2  \* max_steps of the runs of the worker model

RegisteredTools == {"echo"}

ToolCalls ==
    {[tool |-> "bogus", behaviour |-> "ok"]}
    \cup {[tool |-> "echo", behaviour |-> b] : b \in {"ok", "error", "raise"}}

Call(tool, behaviour) == [tool |-> tool, behaviour |-> behaviour]

\* the tool calls found in one text, in text order
TextCalls ==
    {<<>>, <<Call("bogus", "ok")>>, <<Call("echo", "ok")>>,
     <<Call("echo", "error")>>, <<Call("echo", "raise")>>,
     <<Call("echo", "ok"), Call("bogus", "ok")>>,
     <<Call("echo", "error"), Call("echo", "ok")>>,
     <<Call("echo", "ok"), Call("echo", "ok"), Call("echo", "ok"),
       Call("bogus", "ok")>>}

Words == {"working", "All DONE.", "Complete", "unfinished", "Success"}

\* str.lower
Lower(word) ==
    CASE word = "All DONE." -> "all done."
      [] word = "Complete"  -> "complete"
      [] word = "Success"   -> "success"
      [] OTHER              -> word

CompleteMarkers == <<"done", "complete", "finished", "success", "finished">>

\* marker in text, for the words of the model
Contains(text, marker) ==
    \/ text = "all done." /\ marker = "done"
    \/ text = "complete" /\ marker = "complete"
    \/ text = "unfinished" /\ marker = "finished"
    \/ text = "success" /\ marker = "success"
\* _is_complete matching the markers against the text as generated
IsCompleteCaseSensitive(word) ==
    \E i \in 1..Len(CompleteMarkers) : Contains(word, CompleteMarkers[i])

\* WorkerAgent._is_complete
IsComplete(word) ==
    \E i \in 1..Len(CompleteMarkers) : Contains(Lower(word), CompleteMarkers[i])

\* the texts of the model: every word with every list of calls, and texts
\* that hold a command trigger next to a marker or a call
Texts ==
    [trigger : {"none"}, word : Words, calls : TextCalls]
    \cup [trigger : CommandKinds, word : {"working", "All DONE."},
          calls : {<<>>, <<Call("bogus", "ok")>>}]

\* _execute_tool missing the lookup of the tool: an unregistered tool is
\* handed to the sandbox or called
ExecuteToolUnchecked(sandbox, call) ==
    IF sandbox THEN "violation" ELSE call.behaviour

\* WorkerAgent._execute_tool: the outcome of one call. The sandbox object
\* has no execute_secure, so with a sandbox every registered tool ends in
\* the except branch
ExecuteTool(sandbox, call) ==
    IF call.tool \notin RegisteredTools THEN "missing"
    ELSE IF sandbox THEN "violation"
    ELSE call.behaviour

\* how the loop takes one text: the command it triggers, completion, plain
\* text, or tool calls with their outcomes
Classify(text, sandbox) ==
    [kind |-> IF text.trigger # "none" THEN text.trigger
              ELSE IF IsComplete(text.word) THEN "complete"
              ELSE IF text.calls = <<>> THEN "text" ELSE "tools",
     calls |-> [i \in 1..Len(text.calls) |-> ExecuteTool(sandbox, text.calls[i])]]

\* ModelRouter.generate as the loop sees it: a router with metrics attached
\* raises after the provider has answered
GenerateRaises == [kind |-> "raise", calls |-> <<>>]

WorkerDecisions(in) ==
    [i \in 1..Len(in.texts) |->
        IF in.metrics_attached THEN GenerateRaises
        ELSE Classify(in.texts[i], in.sandbox)]

NoError == [prefix |-> "", detail |-> ""]

\* the dict WorkerAgent.execute builds from what _run_task_loop returned
WorkerDict(r) ==
    IF r.ret \in {"raised", "none"}
    THEN [success |-> FALSE, steps_completed |-> 0,
          error |-> [prefix |-> "exception", detail |-> r.ret]]
    ELSE [success |-> r.ret = "success", steps_completed |-> r.steps_completed,
          error |-> IF r.ret = "failure"
                    THEN [prefix |-> "Tool failed: ",
                          detail |-> r.w.task.steps[Len(r.w.task.steps)].error]
                    ELSE NoError]

\* WorkerAgent.execute on a fresh task and the status the engine gives it
WorkerRunResult(in) ==
    LET w == [task |-> NewTask(1, "echo hello"), hist |-> <<"PENDING">>]
        r == RunTaskLoop(w, WorkerDecisions(in), 0, MaxWorkerSteps)
        d == WorkerDict(r)
    IN [op |-> "execute", result |-> d, loop |-> r.ret,
        generate_calls |-> r.steps_completed,
        task |-> SetStatus(r.w, IF d.success THEN "DONE" ELSE "ERROR").task]

\* the loop goes on to another iteration after this text
TextContinues(sandbox, text) ==
    RunTaskLoop([task |-> NewTask(1, "echo hello"), hist |-> <<>>],
                <<Classify(text, sandbox), GenerateRaises>>, 0, 2).steps_completed = 2

\* the texts of one run, as far as the loop reads them
TextSeqs(sandbox) ==
    LET cont == {t \in Texts : TextContinues(sandbox, t)}
    IN UNION {{Append(p, t) : p \in [1..(n - 1) -> cont],
                              t \in IF n < MaxWorkerSteps THEN Texts \ cont ELSE Texts} :
              n \in 1..MaxWorkerSteps}

WorkerInputs ==
    UNION {{[metrics_attached |-> FALSE, sandbox |-> sb, texts |-> ts] :
               ts \in TextSeqs(sb)} : sb \in BOOLEAN}
    \cup {[metrics_attached |-> TRUE, sandbox |-> sb, texts |-> <<t>>] :
            sb \in BOOLEAN, t \in Texts}

WorkerInit ==
    /\ worker_in = [metrics_attached |-> FALSE, sandbox |-> FALSE, texts |-> <<>>]
    /\ worker_out = [op |-> "", result |-> [success |-> FALSE, steps_completed |-> 0,
                                           error |-> NoError],
                     loop |-> "", generate_calls |-> 0,
                     task |-> NewTask(1, "echo hello")]

\* AgentEngine._execute_task_with_supervisor with a local worker, on the
\* fresh task of this run
WorkerRun(in) ==
    /\ worker_out.op = ""
    /\ worker_in' = in
    /\ worker_out' = WorkerRunResult(in)
    /\ UNCHANGED workerFrame

(***************************************************************************)
(* The IRIS journal and its compaction (src/agent/iris_context.py).        *)
(***************************************************************************)
MaxJournal == 4      \* entries a caller puts into one Journal
MaxJournalMax == 3   \* largest meta.journal_max
MaxCompactAfter == 2 \* largest meta.compact_after

JournalPhases == {"READ"}

JournalEntry(task_id, phase) ==
    [task_id |-> task_id, phase |-> phase, compacted |-> FALSE, entry_count |-> 0]

\* entries[-k:] and entries[:-k] for 0 <= k <= len(entries): -0 is 0, so
\* the first is the whole list and the second is empty when k = 0
LastEntries(entries, k) ==
    IF k = 0 THEN entries ELSE SubSeq(entries, Len(entries) - k + 1, Len(entries))

AllButLast(entries, k) ==
    IF k = 0 THEN <<>> ELSE SubSeq(entries, 1, Len(entries) - k)

\* the entry _compact_journal puts in front
SummaryEntry(old_entries) ==
    [task_id |-> IF old_entries # <<>> THEN old_entries[1].task_id ELSE "unknown",
     phase |-> "INIT", compacted |-> TRUE, entry_count |-> Len(old_entries)]

\* ContextManager._compact_journal
CompactJournal(entries, meta) ==
    IF Len(entries) <= meta.compact_after THEN entries
    ELSE LET keep_count == Min(meta.journal_max, Len(entries) - meta.compact_after)
         IN <<SummaryEntry(AllButLast(entries, keep_count))>>
               \o LastEntries(entries, keep_count)

JournalOut(op, before, after) == [op |-> op, before |-> before, after |-> after]

\* ContextManager.initialize: Meta() with its defaults scaled to the model,
\* an empty journal on disk
JournalInit ==
    /\ journal = <<>>
    /\ journal_meta = [journal_max |-> MaxJournalMax, compact_after |-> MaxCompactAfter]
    /\ journal_file = <<>>
    /\ journal_lock = FALSE
    /\ journal_out = JournalOut("", 0, 0)

\* write_context with other meta values; the lock must be free to get in
SetMeta(journal_max, compact_after) ==
    /\ ~journal_lock
    /\ journal_meta' = [journal_max |-> journal_max, compact_after |-> compact_after]
    /\ UNCHANGED <<journal, journal_file, journal_lock, journal_out, journalFrame>>

\* load_journal: a Journal with the entries of the file
LoadJournal ==
    /\ journal' = journal_file
    /\ UNCHANGED <<journal_meta, journal_file, journal_lock, journal_out, journalFrame>>

\* journal.entries.append(entry)
AppendEntry(task_id, phase) ==
    /\ Len(journal) < MaxJournal
    /\ journal' = Append(journal, JournalEntry(task_id, phase))
    /\ UNCHANGED <<journal_meta, journal_file, journal_lock, journal_out, journalFrame>>

\* _compact_journal(journal); its load_context needs the lock free
Compact ==
    /\ ~journal_lock
    /\ Len(journal) <= MaxJournal
    /\ journal' = CompactJournal(journal, journal_meta)
    /\ journal_out' = JournalOut("compact", Len(journal), Len(journal'))
    /\ UNCHANGED <<journal_meta, journal_file, journal_lock, journalFrame>>

\* write_journal(journal): it takes the lock and, holding it, calls
\* load_context, which waits for the lock to be free: the call never comes
\* back and .lock stays
WriteJournal ==
    /\ ~journal_lock
    /\ journal_lock' = TRUE
    /\ journal_out' = JournalOut("write_journal", Len(journal), Len(journal_file))
    /\ UNCHANGED <<journal, journal_meta, journal_file, journalFrame>>

\* _write_journal(journal), as initialize calls it
WriteJournalFile ==
    /\ journal_file' = journal
    /\ journal_out' = JournalOut("_write_journal", Len(journal), Len(journal))
    /\ UNCHANGED <<journal, journal_meta, journal_lock, journalFrame>>

(***************************************************************************)
(* FileLock: the file lock around every ContextManager read and write.     *)
(* A contender is one thread or process running a with FileLock(...) block; *)
(* its steps are the file-system calls of __enter__ and __exit__, which    *)
(* other contenders' calls can come between.                               *)
(***************************************************************************)
MaxContenders == 3

Contenders == 1..MaxContenders

\* (no lock object), before exists() in the spin loop, before touch(),
\* inside the with block, before unlink()
LockPcs == {"idle", "spin", "touch", "held", "unlink"}

LockInit ==
    /\ lock_file = FALSE
    /\ lock_pc = [c \in Contenders |-> "idle"]
    /\ lock_acquired = [c \in Contenders |-> FALSE]
    /\ lock_err = [c \in Contenders |-> ""]

\* FileLock(lock_path): a fresh lock object for one with block
LockNew(c) ==
    /\ lock_pc[c] = "idle"
    /\ lock_pc' = [lock_pc EXCEPT ![c] = "spin"]
    /\ lock_acquired' = [lock_acquired EXCEPT ![c] = FALSE]
    /\ lock_err' = [lock_err EXCEPT ![c] = ""]
    /\ UNCHANGED <<lock_file, lockFrame>>

\* while self.lock_path.exists(): time.sleep(0.01) -- the loop is left when
\* one exists() call answers False
LockSpin(c) ==
    /\ lock_pc[c] = "spin"
    /\ ~lock_file
    /\ lock_pc' = [lock_pc EXCEPT ![c] = "touch"]
    /\ UNCHANGED <<lock_file, lock_acquired, lock_err, lockFrame>>

\* self.lock_path.touch(); self.acquired = True -- touch() succeeds whether
\* or not the file is there
LockTouch(c) ==
    /\ lock_pc[c] = "touch"
    /\ lock_file' = TRUE
    /\ lock_acquired' = [lock_acquired EXCEPT ![c] = TRUE]
    /\ lock_pc' = [lock_pc EXCEPT ![c] = "held"]
    /\ UNCHANGED <<lock_err, lockFrame>>

\* __exit__: if self.acquired and self.lock_path.exists()
LockExit(c) ==
    /\ lock_pc[c] = "held"
    /\ lock_pc' = [lock_pc EXCEPT ![c] =
                      IF lock_acquired[c] /\ lock_file THEN "unlink" ELSE "idle"]
    /\ UNCHANGED <<lock_file, lock_acquired, lock_err, lockFrame>>

\* __exit__: self.lock_path.unlink(), which raises FileNotFoundError when
\* the file went away after the exists() call
LockUnlink(c) ==
    /\ lock_pc[c] = "unlink"
    /\ lock_file' = FALSE
    /\ lock_err' = [lock_err EXCEPT ![c] =
                       IF lock_file THEN "" ELSE "FileNotFoundError"]
    /\ lock_pc' = [lock_pc EXCEPT ![c] = "idle"]
    /\ UNCHANGED <<lock_acquired, lockFrame>>

(***************************************************************************)
(* ModelRouter() as test_router.py builds it: no metrics, no policy, no    *)
(* rotator; the built-in providers and what their generate returns         *)
(* (model_router.py, providers/dummy.py, providers/openai_provider.py).    *)
(***************************************************************************)
\* the characters of the prompt a built-in provider echoes
PromptShown == 50

\* os.getenv("OPENAI_API_KEY"): None when unset
EnvKeys == {"unset", "", "sk-key"}

\* the truth value Python gives the result of os.getenv
Truthy(key) == key \notin {"unset", ""}

\* prompts by their length
Prompts == {[text |-> "", len |-> 0], [text |-> "Test prompt", len |-> 11],
            [text |-> "long prompt", len |-> 60]}

\* f"{prompt[:50]}{'...' if len(prompt) > 50 else ''}"
Shown(prompt) ==
    [text |-> prompt.text, len |-> Min(prompt.len, PromptShown),
     dots |-> prompt.len > PromptShown]

Response(prefix, shown) == [raised |-> FALSE, prefix |-> prefix, shown |-> shown]

NoShown == [text |-> "", len |-> 0, dots |-> FALSE]

\* len(response) > 0
NonEmpty(response) ==
    ~response.raised /\ (response.prefix # "" \/ response.shown.len > 0)

\* OpenAIProvider.__init__: the client exists when the key is there and the
\* openai library can be imported
OpenAIClient(key, library) == Truthy(key) /\ library

\* what the API call of OpenAIProvider.generate comes to: a completion with
\* text in it, or an exception
Replies == {"content", "error"}

\* a registered plug-in provider answers or raises
PluginOutcomes == {"ok", "raise"}

\* provider.generate(prompt, context) of the provider registered under name
ProviderGenerate(name, r, prompt, reply, outcome) ==
    CASE name = "dummy" -> Response("[DUMMY] Processed: ", Shown(prompt))
      [] name = "openai" ->
            IF ~r.client \/ ~Truthy(r.api_key)
            THEN Response("[OPENAI STUB] Processed: ", Shown(prompt))
            ELSE IF reply = "content"
            THEN Response("", [text |-> "completion", len |-> 10, dots |-> FALSE])
            ELSE Response("[OPENAI ERROR] ", NoShown)
      [] OTHER ->
            IF outcome = "ok" THEN Response("[PLUGIN] ", Shown(prompt))
            ELSE [raised |-> TRUE, prefix |-> "", shown |-> NoShown]

\* ModelRouter.__init__ with no arguments under the environment
FreshRouter(key, library) ==
    [providers |-> BuiltinProviders,
     default |-> IF Truthy(key) THEN "openai" ELSE "dummy",
     api_key |-> key,
     client |-> OpenAIClient(key, library)]

FreshOut(op, name, registered, provider, ret) ==
    [op |-> op, name |-> name, registered |-> registered,
     provider |-> provider, ret |-> ret]

NoResponse == [raised |-> FALSE, prefix |-> "", shown |-> NoShown]

FreshInit ==
    /\ fresh_router = FreshRouter("unset", FALSE)
    /\ fresh_out = FreshOut("", "", FALSE, "", NoResponse)

\* router = ModelRouter()
ConstructRouter(key, library) ==
    /\ fresh_router' = FreshRouter(key, library)
    /\ fresh_out' = FreshOut("new", "", FALSE, "", NoResponse)
    /\ UNCHANGED freshFrame

\* router.register(name, provider)
FreshRegister(name) ==
    /\ fresh_router' = [fresh_router EXCEPT !.providers =
                           IF InSeq(name, @) THEN @ ELSE Append(@, name)]
    /\ UNCHANGED <<fresh_out, freshFrame>>

\* router.get_provider(name)
FreshGetProvider(name) ==
    /\ fresh_out' = FreshOut("get_provider", name,
                             InSeq(name, fresh_router.providers),
                             GetProvider(fresh_router.providers,
                                         fresh_router.default, name),
                             NoResponse)
    /\ UNCHANGED <<fresh_router, freshFrame>>

\* router.generate(prompt, provider_name=name): no policy, no rotator, no
\* metrics, so the provider's answer or exception is the call's
FreshGenerate(name, prompt, reply, outcome) ==
    /\ LET routed == ModelRouterGenerate(
                         fresh_router.providers,
                         [router_policy |-> FALSE, model_metrics |-> FALSE,
                          default |-> fresh_router.default],
                         EmptyMap, 0, name, outcome)
       IN fresh_out' = FreshOut("generate", name,
                                InSeq(name, fresh_router.providers),
                                routed.invoked,
                                ProviderGenerate(routed.invoked, fresh_router,
                                                 prompt, reply, outcome))
    /\ UNCHANGED <<fresh_router, freshFrame>>

(***************************************************************************)
(* The supervisor's task queue and the wait loop of run_all_pending         *)
(* (supervisor.py). The class declares the queue, the active_tasks map and  *)
(* the loop; the code that puts tasks on the queue and the worker threads   *)
(* that take them are not in the source, and are modelled here as the       *)
(* specification describes them.                                            *)
(***************************************************************************)
MaxPoolTasks == 3    \* tasks handed to the supervisor
MaxPriority == 2     \* priorities 1..MaxPriority

\* queue.PriorityQueue.get on entries (priority, task_id, task): the least
\* entry in tuple order
PqGet(queue) ==
    CHOOSE e \in queue :
       \A f \in queue :
          \/ e.priority < f.priority
          \/ e.priority = f.priority /\ e.task_id <= f.task_id

\* ids that were ever put on the queue
PoolSeen == {e.task_id : e \in pool_queue} \cup
            {pool_taken[i].task_id : i \in 1..Len(pool_taken)}

PoolOut(ret, queue_empty, active, timed_out) ==
    [ret |-> ret, queue_empty |-> queue_empty, active |-> active,
     timed_out |-> timed_out]

PoolInit ==
    /\ pool_queue = {}
    /\ pool_active = {}
    /\ pool_taken = <<>>
    /\ pool_pc = "idle"
    /\ pool_timed_out = FALSE
    /\ pool_out = PoolOut("", TRUE, 0, FALSE)

\* a task is accepted: put((priority, task_id, task))
PoolEnqueue(id, priority) ==
    /\ id \notin PoolSeen
    /\ pool_queue' = pool_queue \cup
          {[priority |-> priority, task_id |-> id,
            seq |-> Cardinality(PoolSeen) + 1]}
    /\ UNCHANGED <<pool_active, pool_taken, pool_pc, pool_timed_out, pool_out,
                   poolFrame>>

\* a free worker draws the next entry from the queue and makes it active
WorkerTake ==
    /\ pool_queue # {}
    /\ Cardinality(pool_active) < MaxWorkers
    /\ LET e == PqGet(pool_queue)
       IN /\ pool_queue' = pool_queue \ {e}
          /\ pool_active' = pool_active \cup {e.task_id}
          /\ pool_taken' = Append(pool_taken, e)
    /\ UNCHANGED <<pool_pc, pool_timed_out, pool_out, poolFrame>>

\* a worker is through with its task
WorkerFinish(id) ==
    /\ id \in pool_active
    /\ pool_active' = pool_active \ {id}
    /\ UNCHANGED <<pool_queue, pool_taken, pool_pc, pool_timed_out, pool_out,
                   poolFrame>>

\* run_all_pending up to its loop: the pending tasks are on the queue,
\* start_time is taken
RunAllPendingBegin ==
    /\ pool_pc \in {"idle", "returned"}
    /\ pool_pc' = "test"
    /\ pool_timed_out' = FALSE
    /\ UNCHANGED <<pool_queue, pool_active, pool_taken, pool_out, poolFrame>>

\* the clock passes start_time + timeout
PoolTimeout ==
    /\ pool_pc \in {"test", "body"}
    /\ ~pool_timed_out
    /\ pool_timed_out' = TRUE
    /\ UNCHANGED <<pool_queue, pool_active, pool_taken, pool_pc, pool_out,
                   poolFrame>>

\* the rest of run_all_pending after the loop: the results are returned
PoolReturn ==
    /\ pool_pc' = "returned"
    /\ pool_out' = PoolOut("results", pool_queue = {},
                           Cardinality(pool_active), pool_timed_out)

\* while not self._task_queue.empty() and (time.time() - start_time) < timeout
LoopTest ==
    /\ pool_pc = "test"
    /\ IF pool_queue # {} /\ ~pool_timed_out
       THEN pool_pc' = "body" /\ UNCHANGED pool_out
       ELSE PoolReturn
    /\ UNCHANGED <<pool_queue, pool_active, pool_taken, pool_timed_out,
                   poolFrame>>

\* the loop body: active_count is read under the lock; break when nothing is
\* active and the queue is empty, else sleep and test again
LoopBody ==
    /\ pool_pc = "body"
    /\ IF pool_active = {} /\ pool_queue = {}
       THEN PoolReturn
       ELSE pool_pc' = "test" /\ UNCHANGED pool_out
    /\ UNCHANGED <<pool_queue, pool_active, pool_taken, pool_timed_out,
                   poolFrame>>

(***************************************************************************)
(* Concurrent add_journal_entry calls on one .context directory            *)
(* (iris_context.py): each call loads the journal without the lock,        *)
(* appends to its own copy and calls write_journal.                        *)
(***************************************************************************)
MaxAdders == 3

Adders == 1..MaxAdders

AdderInit ==
    /\ add_pc = [a \in Adders |-> "idle"]
    /\ add_local = [a \in Adders |-> <<>>]

\* journal = self.load_journal()
AddLoad(a) ==
    /\ add_pc[a] = "idle"
    /\ add_local' = [add_local EXCEPT ![a] = journal_file]
    /\ add_pc' = [add_pc EXCEPT ![a] = "append"]
    /\ UNCHANGED <<journalVars, adderFrame>>

\* what a caller hands to add_journal_entry: a dict, as the callers in
\* iris_loop.py do, or a dataclass instance with the fields of an entry
EntryKinds == {"dict", "dataclass"}

\* JournalEntry(ts=..., **asdict(entry)): asdict takes dataclass instances
\* only and raises TypeError for a dict; otherwise
\* journal.entries.append(full_entry), and self.write_journal(journal) is
\* entered
AddAppend(a, kind) ==
    /\ add_pc[a] = "append"
    /\ IF kind = "dict"
       THEN /\ add_pc' = [add_pc EXCEPT ![a] = AddJournalEntryRaises]
            /\ UNCHANGED add_local
       ELSE /\ add_local' = [add_local EXCEPT ![a] =
                                Append(@, JournalEntry(a, "READ"))]
            /\ add_pc' = [add_pc EXCEPT ![a] = "spin"]
    /\ UNCHANGED <<journalVars, adderFrame>>

\* write_journal: with self._acquire_lock() -- FileLock.__enter__ leaves its
\* loop when exists() answers False
AddLockSpin(a) ==
    /\ add_pc[a] = "spin"
    /\ ~journal_lock
    /\ add_pc' = [add_pc EXCEPT ![a] = "touch"]
    /\ UNCHANGED <<add_local, journalVars, adderFrame>>

\* FileLock.__enter__: touch(); then write_journal calls load_context, whose
\* own FileLock waits for .lock to go away. Only the __exit__ of a with
\* block unlinks it, and every call that is in one waits here: no step
\* follows this one.
AddLockTouch(a) ==
    /\ add_pc[a] = "touch"
    /\ journal_lock' = TRUE
    /\ add_pc' = [add_pc EXCEPT ![a] = "load_context"]
    /\ UNCHANGED <<add_local, journal, journal_meta, journal_file, journal_out,
                   adderFrame>>

(***************************************************************************)
(* Threads calling ModelMetrics.record_generation for one provider on one  *)
(* ModelMetrics object (model_metrics.py). The method takes no lock: the   *)
(* += on the shared dict and the write of the one .tmp file are races, and *)
(* every interleaving of their parts is a possible outcome.                *)
(***************************************************************************)
MaxRecorders == 3

Recorders == 1..MaxRecorders

NoTmp == [exists |-> FALSE, total |-> 0]

RecInit ==
    /\ rec_total = 0
    /\ rec_tmp = NoTmp
    /\ rec_file = 0
    /\ rec_pc = [t \in Recorders |-> "idle"]
    /\ rec_read = [t \in Recorders |-> 0]
    /\ rec_err = [t \in Recorders |-> ""]

\* metrics["total_requests"] += 1: the value is read
RecRead(t) ==
    /\ rec_pc[t] = "idle"
    /\ rec_read' = [rec_read EXCEPT ![t] = rec_total]
    /\ rec_pc' = [rec_pc EXCEPT ![t] = "store"]
    /\ UNCHANGED <<rec_total, rec_tmp, rec_file, rec_err, recFrame>>

\* metrics["total_requests"] += 1: the value read, plus one, is stored
RecStore(t) ==
    /\ rec_pc[t] = "store"
    /\ rec_total' = rec_read[t] + 1
    /\ rec_pc' = [rec_pc EXCEPT ![t] = "dump"]
    /\ UNCHANGED <<rec_tmp, rec_file, rec_read, rec_err, recFrame>>

\* _save: open(temp_path, "w"), json.dump(self._metrics, f), close
RecDump(t) ==
    /\ rec_pc[t] = "dump"
    /\ rec_tmp' = [exists |-> TRUE, total |-> rec_total]
    /\ rec_pc' = [rec_pc EXCEPT ![t] = "replace"]
    /\ UNCHANGED <<rec_total, rec_file, rec_read, rec_err, recFrame>>

\* _save: temp_path.replace(self.metrics_path); when another thread has
\* renamed the file away, FileNotFoundError is caught as OSError and raised
\* again
RecReplace(t) ==
    /\ rec_pc[t] = "replace"
    /\ IF rec_tmp.exists
       THEN /\ rec_file' = rec_tmp.total
            /\ rec_tmp' = NoTmp
            /\ UNCHANGED rec_err
       ELSE /\ rec_err' = [rec_err EXCEPT ![t] = "FileNotFoundError"]
            /\ UNCHANGED <<rec_file, rec_tmp>>
    /\ rec_pc' = [rec_pc EXCEPT ![t] = "done"]
    /\ UNCHANGED <<rec_total, rec_read, recFrame>>

(***************************************************************************)
(* SyscallFilter.check_command and the worker's _execute_tool with a       *)
(* filter configured (security/syscall.py, agents/executor.py).            *)
(***************************************************************************)
\* dangerous_patterns: a list of tuples of strings
DangerousPatterns ==
    <<{"sudo", "doas", "pkexec"},
      {"apt install", "apt-get install", "pip install", "npm install"},
      {"wget", "curl", "nc", "ncat", "telnet"},
      {"iptables", "ufw", "mount", "umount"},
      {"killall", "pkill", "kill -9", "kill -SIGKILL"}>>

\* commands by the words of the lists that occur in their lower case
Commands ==
    {[text |-> "ls -l", has |-> {}],
     [text |-> "curl http://x", has |-> {"curl"}],
     [text |-> "pkill python", has |-> {"pkill"}],
     [text |-> "sudo pip install y", has |-> {"sudo", "pip install"}]}

\* the filters a worker is built with: None, or allowlist and denylist
Filters ==
    {[configured |-> c, allowlist |-> a, denylist |-> d] :
        c \in BOOLEAN, a \in SUBSET {"curl"}, d \in SUBSET {"sudo"}}

\* `pattern in command.lower()` with pattern one of the tuples: str's
\* __contains__ takes a string only
TupleInStr(pattern, command) == "TypeError"

\* SyscallFilter.check_command: the first pass of the loop over
\* dangerous_patterns evaluates `pattern in command.lower()` and raises
CheckCommand(filter, command, count) ==
    IF Len(DangerousPatterns) > 0
    THEN [ret |-> TupleInStr(DangerousPatterns[1], command), count |-> count,
          saved |-> FALSE]
    ELSE [ret |-> "allowed", count |-> count, saved |-> FALSE]

ToolOut(op, filter, command, ret) ==
    [op |-> op, filter |-> filter, command |-> command, ret |-> ret]

FilterInit ==
    /\ blocked_count = 0
    /\ blocked_file = 0
    /\ tool_out = ToolOut("", [configured |-> FALSE, allowlist |-> {},
                               denylist |-> {}],
                          [text |-> "", has |-> {}], "")

\* filter.check_command(command) called on its own
FilterCheck(filter, command) ==
    /\ filter.configured
    /\ LET r == CheckCommand(filter, command, blocked_count)
       IN /\ blocked_count' = r.count
          /\ blocked_file' = IF r.saved THEN r.count ELSE blocked_file
          /\ tool_out' = ToolOut("check_command", filter, command, r.ret)
    /\ UNCHANGED filterFrame

\* WorkerAgent._execute_tool of a worker built with this filter, on a shell
\* call with this command: self.syscall_filter is stored by __init__ and not
\* read again
FilterExecuteTool(filter, sandbox, command, behaviour) ==
    /\ tool_out' = ToolOut("_execute_tool", filter, command,
                           ExecuteTool(sandbox, Call("echo", behaviour)))
    /\ UNCHANGED <<blocked_count, blocked_file, filterFrame>>

(***************************************************************************)
(* The READ phase's file records and the WRITE loop over a plan            *)
(* (iris_loop.py), with the read state as READ builds it and a task id     *)
(* that create_checkpoint accepts.                                         *)
(***************************************************************************)
\* calculate_checksum: '' for a missing file, else the SHA-256 of its bytes
Sha256(f) == IF f.exists THEN <<"sha256", f.lines>> ELSE <<"">>

\* plan.intended_edits with one edit, or with two edits of different files
WritePlans ==
    {<<e>> : e \in Edits}
    \cup {<<e1, e2>> : e1 \in {e \in Edits : e.file = "a/x.py"},
                       e2 \in {e \in Edits : e.file = "b/x.py"}}

\* for each edit: how _apply_edit ends and what _verify_changes answers
EditOutcomes ==
    {<<[outcome |-> o, verify_ok |-> v]>> : o \in ApplyOutcomes, v \in BOOLEAN}
    \cup {<<[outcome |-> "ok", verify_ok |-> TRUE], [outcome |-> o, verify_ok |-> v]>> :
            o \in ApplyOutcomes, v \in BOOLEAN}

RunInit ==
    /\ read_state = EmptyMap
    /\ write_run = [result |-> "", before |-> EmptyMap, after |-> EmptyMap,
                    applied |-> <<>>]

\* _execute_read_phase, lines 104-125: every file found that exists is read
\* and its FileRead carries calculate_checksum(file_path)
ReadFiles ==
    /\ read_state' = [p \in {q \in Paths : fs[q].exists} |-> Sha256(fs[p])]
    /\ UNCHANGED <<write_run, runFrame>>

\* the for loop of _execute_write_phase from edit i on: the test of line 206
\* looks for the file among the keys of files_read; checkpoint, apply, verify
\* and rollback as in WriteEdit; the first edit rolled back ends the loop
\* with False
RECURSIVE WriteEdits(_, _, _, _, _, _, _, _, _)
WriteEdits(files, ck, rs, tid, plan, ms, outs, i, applied) ==
    IF i > Len(plan)
    THEN [fs |-> files, ckpt |-> ck, result |-> "success", applied |-> applied]
    ELSE IF plan[i].file \notin DOMAIN rs
    THEN [fs |-> files, ckpt |-> ck, result |-> "IRISEnforcementError",
          applied |-> applied]
    ELSE LET e == plan[i]
             r == WriteEdit(files, ck, tid, e, ms, outs[i].outcome, outs[i].verify_ok)
             a == IF outs[i].outcome = "unopened" THEN applied
                  ELSE Append(applied, [file |-> e.file,
                                        at_write |-> Sha256(files[e.file]),
                                        at_read |-> rs[e.file]])
         IN IF r.edit.result = "rolled_back"
            THEN [fs |-> r.fs, ckpt |-> r.ckpt, result |-> "failed", applied |-> a]
            ELSE WriteEdits(r.fs, r.ckpt, rs, tid, plan, ms, outs, i + 1, a)

\* _execute_write_phase(task, plan), once in a behaviour
WritePlan(tid, plan, outs) ==
    /\ write_run.result = ""
    /\ Len(outs) = Len(plan)
    /\ \A i \in 1..Len(plan) : Len(SplitLines(fs[plan[i].file])) <= MaxLines
    /\ LET r == WriteEdits(fs, ckpt, read_state, tid, plan, clock, outs, 1, <<>>)
       IN /\ fs' = r.fs
          /\ ckpt' = r.ckpt
          /\ write_run' = [result |-> r.result, before |-> fs, after |-> r.fs,
                           applied |-> r.applied]
    /\ UNCHANGED <<taskVars, ctx, iris_task, iris_out, clock, edit, read_state>>
    /\ UNCHANGED <<storeVars, metricsVars, runFrameExt>>

(***************************************************************************)
(* Specifications.                                                         *)
(***************************************************************************)
ExtInit ==
    /\ AcctInit
    /\ RouterInit
    /\ SupInit
    /\ WorkerInit
    /\ JournalInit
    /\ LockInit
    /\ FreshInit
    /\ PoolInit
    /\ AdderInit
    /\ RecInit
    /\ FilterInit
    /\ RunInit

Init == TaskInit /\ IrisInit /\ StoreInit /\ MetricsInit /\ ExtInit

\* the task lifecycle: repository, engine runs, IRIS execute_task
Next ==
    \/ \E g \in Goals : Create(g)
    \/ SaveNextId
    \/ Restart
    \/ \E id \in 1..MaxId : Delete(id)
    \/ \E arg \in 0..MaxId, in \in RunInputs : RunSingleTask(arg, in)
    \/ \E id \in 1..MaxId : IrisExecuteTask(id)

Spec == Init /\ [][Next]_vars

\* the IRIS WRITE phase over repository tasks
IrisNext ==
    \/ \E g \in Goals : Create(g)
    \/ SaveNextId
    \/ \E id \in 1..MaxId : IrisExecuteTask(id)
    \/ \E id \in 1..MaxId, plan \in Plans : WritePhase(id, plan)
    \/ Restart
    \/ \E p \in Paths : RemoveFile(p)
    \/ \E p \in Paths : WriteFile(p)

SpecIris == Init /\ [][IrisNext]_vars

\* checkpoint, edit and rollback of project files
CheckpointNext ==
    \/ \E tid \in TaskIds, e \in Edits, o \in ApplyOutcomes, v \in BOOLEAN :
          WriteOneEdit(tid, e, o, v)
    \/ Tick
    \/ \E p \in Paths : RemoveFile(p)
    \/ \E p \in Paths : WriteFile(p)

SpecCheckpoint == Init /\ [][CheckpointNext]_vars

\* concurrent savers and a reader of one persisted file
StoreNext ==
    \/ \E w \in Savers : OpenTmp(w)
    \/ \E w \in Savers : WriteChunk(w)
    \/ \E w \in Savers : CloseTmp(w)
    \/ \E w \in Savers : Replace(w)
    \/ Load

SpecStore == Init /\ [][StoreNext]_vars

\* provider metrics
MetricsNext ==
    \/ \E p \in Providers, success \in BOOLEAN : RecordGeneration(p, success)
    \/ \E p \in Providers, limited \in BOOLEAN : CheckRateLimit(p, limited)
    \/ ReloadMetrics

SpecMetrics == Init /\ [][MetricsNext]_vars

\* accounts and their rotation
AcctNext ==
    \/ \E p \in AcctProviders, id \in AccountIds, pr \in 1..2 : AddAccount(p, id, pr)
    \/ \E p \in AcctProviders : GetNext(p)
    \/ \E p \in AcctProviders, id \in AccountIds : DoMarkUsed(p, id)
    \/ \E p \in AcctProviders, id \in AccountIds, sec \in {0, TickSeconds} :
          DoSetCooldown(p, id, sec)
    \/ \E p \in AcctProviders, id \in AccountIds : RemoveAccount(p, id)
    \/ \E p \in AcctProviders : SelectAccount(p)
    \/ ReloadAccounts
    \/ AcctTick

SpecAccounts == Init /\ [][AcctNext]_vars

\* the model router with its policy and metrics
RouterNext ==
    \/ \E policy, with_metrics \in BOOLEAN : NewRouter(policy, with_metrics)
    \/ \E name \in {"A", "B"} : Register(name)
    \/ \E p \in RouterNames, success \in BOOLEAN, l \in Latencies :
          RouterRecord(p, success, l)
    \/ \E p \in RouterNames : RouterRateLimit(p)
    \/ \E explicit \in ExplicitNames, outcome \in {"ok", "raise"} :
          Generate(explicit, outcome)
    \/ RouterClock

SpecRouter == Init /\ [][RouterNext]_vars

\* the supervisor and the engine calls that reach it
\* SupervisorAgent.shutdown
Shutdown ==
    /\ LET r == SupervisorShutdown(supervisor)
       IN /\ supervisor' = r.sup
          /\ sup_out' = SupOut("shutdown", PendingIds(sup_tasks), r.ret)
    /\ UNCHANGED <<sup_tasks, supFrame>>

SupNext ==
    \/ \E n \in 0..MaxWorkers : NewSupervisor(n)
    \/ SupCreate
    \/ \E success \in BOOLEAN : SupRunSingle(success)
    \/ RunAllPending
    \/ Shutdown

SpecSupervisor == Init /\ [][SupNext]_vars

\* runs of the worker loop
WorkerNext == \E in \in WorkerInputs : WorkerRun(in)

SpecWorker == Init /\ [][WorkerNext]_vars

\* the journal of the IRIS context
JournalNext ==
    \/ \E jm \in 0..MaxJournalMax, ca \in 0..MaxCompactAfter : SetMeta(jm, ca)
    \/ LoadJournal
    \/ \E p \in JournalPhases : AppendEntry("t1", p)
    \/ Compact
    \/ WriteJournal
    \/ WriteJournalFile

SpecJournal == Init /\ [][JournalNext]_vars

\* contenders entering and leaving with FileLock blocks on one lock path
LockNext ==
    \E c \in Contenders :
        \/ LockNew(c)
        \/ LockSpin(c)
        \/ LockTouch(c)
        \/ LockExit(c)
        \/ LockUnlink(c)

SpecLock == Init /\ [][LockNext]_vars

\* a router built without systems, as the router test uses it
FreshNames == {"None", "", "dummy", "openai", "ghost", "A"}

FreshNext ==
    \/ \E key \in EnvKeys, library \in BOOLEAN : ConstructRouter(key, library)
    \/ FreshRegister("A")
    \/ \E name \in FreshNames : FreshGetProvider(name)
    \/ \E name \in FreshNames, prompt \in Prompts, reply \in Replies,
          outcome \in PluginOutcomes :
          FreshGenerate(name, prompt, reply, outcome)

SpecFreshRouter == Init /\ [][FreshNext]_vars

\* tasks going through the supervisor's queue while run_all_pending waits
PoolNext ==
    \/ \E id \in 1..MaxPoolTasks, priority \in 1..MaxPriority :
          PoolEnqueue(id, priority)
    \/ WorkerTake
    \/ \E id \in 1..MaxPoolTasks : WorkerFinish(id)
    \/ RunAllPendingBegin
    \/ PoolTimeout
    \/ LoopTest
    \/ LoopBody

SpecPool == Init /\ [][PoolNext]_vars

\* concurrent add_journal_entry calls; each call goes on as long as it can
AddNext ==
    \E a \in Adders :
       \/ AddLoad(a)
       \/ \E kind \in EntryKinds : AddAppend(a, kind)
       \/ AddLockSpin(a)
       \/ AddLockTouch(a)

SpecAddEntry == Init /\ [][AddNext]_vars /\ WF_vars(AddNext)

\* one record_generation call per thread, interleaved
RecNext ==
    \E t \in Recorders :
       \/ RecRead(t)
       \/ RecStore(t)
       \/ RecDump(t)
       \/ RecReplace(t)

SpecRecorders == Init /\ [][RecNext]_vars

\* tool calls of workers with and without a syscall filter
FilterNext ==
    \/ \E filter \in Filters, command \in Commands : FilterCheck(filter, command)
    \/ \E filter \in Filters, sandbox \in BOOLEAN, command \in Commands,
          behaviour \in {"ok", "error"} :
          FilterExecuteTool(filter, sandbox, command, behaviour)

SpecFilter == Init /\ [][FilterNext]_vars

\* a READ phase, the user's changes, and one WRITE phase
WriteRunNext ==
    \/ ReadFiles
    \/ \E p \in Paths : RemoveFile(p)
    \/ \E p \in Paths : WriteFile(p)
    \/ \E tid \in TaskIds, plan \in WritePlans, outs \in EditOutcomes :
          WritePlan(tid, plan, outs)

SpecWriteRun == Init /\ [][WriteRunNext]_vars

(***************************************************************************)
(* Properties.                                                             *)
(***************************************************************************)

\* C1: every change of a task's status is one of the allowed transitions
\* PENDING->RUNNING, RUNNING->PAUSED, PAUSED->RUNNING, RUNNING->DONE,
\* RUNNING->ERROR, PAUSED->ERROR.
C1_AllowedTransitionsOnly ==
    [][\A id \in (DOMAIN tasks) \cap (DOMAIN tasks') :
          tasks'[id].status # tasks[id].status =>
             <<tasks[id].status, tasks'[id].status>> \in
                {<<"PENDING", "RUNNING">>, <<"RUNNING", "PAUSED">>,
                 <<"PAUSED", "RUNNING">>, <<"RUNNING", "DONE">>,
                 <<"RUNNING", "ERROR">>, <<"PAUSED", "ERROR">>}]_vars

\* C2: DONE and ERROR are terminal: no operation on an existing task (any
\* step that allocates no id) changes the status of a task that is DONE or
\* ERROR.
C2_DoneErrorTerminal ==
    [][\A id \in (DOMAIN tasks) \cap (DOMAIN tasks') :
          (next_id' = next_id /\ tasks[id].status \in {"DONE", "ERROR"}) =>
             tasks'[id].status = tasks[id].status]_vars

\* C3: task ids are never reused: the id a create returns is greater than
\* every id an earlier create returned, over restarts and crashes between
\* the two writes of _save_tasks, and it is not the id of a task the
\* repository holds.
C3_IdsNeverReused ==
    [][(repo_pc = "idle" /\ repo_pc' = "save_next_id" /\ next_id' = next_id + 1) =>
          (next_id > issued_max /\ next_id \notin DOMAIN tasks)]_vars

\* C4: with concurrent savers, every content a reader reads from the target
\* path is the complete content of one single save.
C4_ReaderSeesCompleteSave ==
    \E n \in 1..MaxSaves : observed = CompleteContent(n)

\* C5: a WRITE phase whose edit names a file that is not in the read state
\* ends with ERR_ENFORCEMENT_VIOLATION, the task in ERROR and every file
\* unchanged.
C5_WriteEnforcement ==
    [][\A id \in 1..MaxId, plan \in Plans \ {<<>>} :
          (/\ WritePhase(id, plan)
           /\ plan[1].file \notin DOMAIN ctx.current_task.files_read) =>
             (/\ iris_out' = "ERR_ENFORCEMENT_VIOLATION"
              /\ tasks'[id].status = "ERROR"
              /\ fs' = fs)]_vars

\* C6: after an edit is rolled back (verification failed or applying
\* raised) the file is what it was immediately before the edit, and the
\* checkpoint file exists.
C6_RollbackRoundTrip ==
    edit.result = "rolled_back" =>
        (edit.after = edit.before /\ edit.path \in DOMAIN ckpt)

\* C7: in every task, in memory and as reloaded from the file, the i-th
\* step (0-based) has step_id = i+1.
C7_StepIdsDense ==
    /\ \A id \in DOMAIN tasks :
          \A i \in 1..Len(tasks[id].steps) : tasks[id].steps[i].step_id = i
    /\ \A id \in DOMAIN LoadTasks(disk) :
          \A i \in 1..Len(LoadTasks(disk)[id].steps) :
             LoadTasks(disk)[id].steps[i].step_id = i

\* C7 witness: a task with two or more steps that has been persisted
C7_Witness ==
    \E id \in DOMAIN tasks :
       /\ Len(tasks[id].steps) >= 2
       /\ id \in DOMAIN LoadTasks(disk)
       /\ LoadTasks(disk)[id].steps = tasks[id].steps

\* C8: the step log is append-only: over every operation the log of a task
\* the repository holds before and after is extended, never shortened or
\* rewritten.
C8_StepsAppendOnly ==
    [][\A id \in (DOMAIN tasks) \cap (DOMAIN tasks') :
          IsPrefix(tasks[id].steps, tasks'[id].steps)]_vars

\* C9: when create, update or delete has returned, the tasks map and the
\* next id loaded from the file equal the repository's in memory.
C9_FileEqualsMemory ==
    repo_pc = "idle" =>
        (LoadTasks(disk) = tasks /\ LoadNextId(disk) = next_id)

\* C9 witness: an update has returned for a finished task with steps, after
\* at least one create
C9_Witness ==
    /\ repo_pc = "idle"
    /\ next_id > 1
    /\ \E id \in DOMAIN tasks :
          tasks[id].status \in {"DONE", "ERROR"} /\ Len(tasks[id].steps) >= 1

\* C10: for every provider, in memory and in the saved file,
\* successful_requests + failed_requests = total_requests.
C10_CountersAddUp ==
    /\ \A p \in DOMAIN metrics :
          metrics[p].successful_requests + metrics[p].failed_requests
             = metrics[p].total_requests
    /\ \A p \in DOMAIN metrics_file :
          metrics_file[p].successful_requests + metrics_file[p].failed_requests
             = metrics_file[p].total_requests

\* C10 witness: a provider with successes, failures and a rate-limit check
C10_Witness ==
    \E p \in DOMAIN metrics :
       /\ metrics[p].successful_requests >= 1
       /\ metrics[p].failed_requests >= 1
       /\ metrics[p].rate_limit_hit

RateLimitedCooling(p) ==
    /\ p \in DOMAIN router_metrics
    /\ router_metrics[p].rate_limit_hit
    /\ InCooldown(router_metrics[p], router_now)

Healthy(p) ==
    LET h == GetProviderHealth(router_metrics, p, router_now)
    IN h.available /\ ~h.in_cooldown

\* C12: a generate call without an explicit provider on a router with a
\* policy, made while a registered provider is rate-limited and cooling down
\* and another registered provider is healthy, runs the generate of a
\* registered provider that is not rate-limited and cooling down.
C12_PolicyAvoidsCoolingProvider ==
    [][(/\ \E outcome \in {"ok", "raise"} : Generate("None", outcome)
        /\ router_cfg.router_policy
        /\ \E a \in RouterNames :
              InSeq(a, router_providers) /\ RateLimitedCooling(a)
        /\ \E b \in RouterNames : InSeq(b, router_providers) /\ Healthy(b))
       => (/\ InSeq(router_out'.invoked, router_providers)
           /\ ~RateLimitedCooling(router_out'.invoked))]_vars

C14_PendingTasksFinish ==
    [][(RunAllPending /\ supervisor.workers > 0)
       => \A id \in PendingIds(sup_tasks) : sup_tasks'[id] \in {"DONE", "ERROR"}]_vars

\* the iterations of a run that end without returning: a handled command
\* that changes no state, a text without tool calls, tool calls that all
\* succeed
Uneventful(d) ==
    \/ d.kind = "cmd_plain"
    \/ d.kind = "text"
    \/ /\ d.kind = "tools"
       /\ \A i \in 1..Min(Len(d.calls), MaxToolsPerStep) : d.calls[i] = "ok"

\* C15: a run whose max_steps iterations all go by without a completion
\* marker, an interrupting command or a tool error returns success with
\* steps_completed = max_steps.
C15_MaxStepsIsSuccess ==
    (/\ worker_out.op = "execute"
     /\ ~worker_in.metrics_attached
     /\ Len(worker_in.texts) = MaxWorkerSteps
     /\ \A i \in 1..MaxWorkerSteps : Uneventful(WorkerDecisions(worker_in)[i]))
    => (/\ worker_out.result.success
        /\ worker_out.result.steps_completed = MaxWorkerSteps)

\* the words of the model that hold done, complete, finished or success in
\* some letter case
MarkerWords == {"All DONE.", "Complete", "unfinished", "Success"}

\* the task's steps when iteration k of the run begins
StepsBefore(in, k) ==
    RunTaskLoop([task |-> NewTask(1, "echo hello"), hist |-> <<"PENDING">>],
                WorkerDecisions(in), 0, k - 1).w.task.steps

\* iteration k of the run was entered and got the text texts[k]
StepRead(k) ==
    /\ worker_out.op = "execute"
    /\ ~worker_in.metrics_attached
    /\ k <= Len(worker_in.texts)
    /\ k <= worker_out.generate_calls

\* C16: when the text of a step holds a completion marker in any letter case
\* and triggers no command, the run returns success at that step, the step
\* adds exactly one `decision` step and nothing else to the task, the router
\* is not called again, and the task ends DONE.
C16_MarkerEndsRun ==
    \A k \in 1..MaxWorkerSteps :
       (/\ StepRead(k)
        /\ worker_in.texts[k].trigger = "none"
        /\ worker_in.texts[k].word \in MarkerWords)
       => (/\ worker_out.result.success
           /\ worker_out.result.steps_completed = k
           /\ worker_out.generate_calls = k
           /\ worker_out.task.steps =
                 Append(StepsBefore(worker_in, k),
                        [step_id |-> Len(StepsBefore(worker_in, k)) + 1,
                         action |-> "decision", error |-> ""])
           /\ worker_out.task.status = "DONE")

\* the second text of a run holds a marker in capitals next to a tool call
C16_Witness ==
    /\ StepRead(2)
    /\ worker_in.texts[2].trigger = "none"
    /\ worker_in.texts[2].word = "All DONE."
    /\ worker_in.texts[2].calls # <<>>
    /\ worker_out.result.steps_completed = 2
    /\ worker_out.task.status = "DONE"

\* the loop comes to call number i of the text of step k, a call to a tool
\* that is not registered
CallsUnregistered(k, i) ==
    /\ StepRead(k)
    /\ worker_in.texts[k].trigger = "none"
    /\ worker_in.texts[k].word \notin MarkerWords
    /\ i <= Min(Len(worker_in.texts[k].calls), MaxToolsPerStep)
    /\ worker_in.texts[k].calls[i].tool \notin RegisteredTools
    /\ \A j \in 1..(i - 1) :
          /\ worker_in.texts[k].calls[j].tool \in RegisteredTools
          /\ worker_in.texts[k].calls[j].behaviour = "ok"
          /\ ~worker_in.sandbox

C18_CompactedWithinMax ==
    (/\ journal_out.op = "compact"
     /\ journal_out.before > journal_meta.compact_after)
    => journal_out.after <= journal_meta.journal_max

\* C19: once execute_task has run the read phase of a task, the last_phase
\* stored in the persisted context is no longer INIT: it is READ or a phase
\* that comes after READ.
C19_PhasePersisted ==
    [][\A id \in 1..MaxId :
          (/\ IrisExecuteTask(id)
           /\ id \in DOMAIN tasks
           /\ ctx.exists)
          => ctx'.current_task.last_phase \in
                {"READ", "PLAN", "WRITE", "VERIFY", "DONE", "ERROR"}]_vars

\* C20: the file lock gives mutual exclusion: at most one contender is
\* inside a FileLock-protected block at a time.
C20_MutualExclusion ==
    Cardinality({c \in Contenders : lock_pc[c] = "held"}) <= 1

AccountsOf(acs, provider) ==
    IF provider \in DOMAIN acs THEN acs[provider] ELSE <<>>

\* C22: from any accounts state, add_account(P, id, ...) followed by
\* remove_account(P, id) leaves P's account list as it was before the add, in
\* memory and on disk, whether or not P had an entry and whether or not the
\* id was already there.
C22_AddRemoveRestores ==
    \A p \in AcctProviders, id \in AccountIds :
       LET a == AddAccountTo(accounts, acct_file, p, id, 1)
           r == RemoveAccountFrom(a.accounts, a.file, p, id)
       IN /\ AccountsOf(r.accounts, p) = AccountsOf(accounts, p)
          /\ AccountsOf(r.file, p) = AccountsOf(acct_file, p)

TrimmedOutcomes(k) ==
    [i \in 1..Min(Len(worker_in.texts[k].calls), MaxToolsPerStep) |->
        ExecuteTool(worker_in.sandbox, worker_in.texts[k].calls[i])]

\* the first of them whose result dict has a non-empty error, 0 if none
FirstFailing(k) ==
    LET failing == {i \in DOMAIN TrimmedOutcomes(k) :
                       TrimmedOutcomes(k)[i] \notin {"ok", "raise"}}
    IN IF failing = {} THEN 0
       ELSE CHOOSE i \in failing : \A j \in failing : i <= j

\* step k of the run reads a text with tool calls and no marker or command,
\* and no call raises before the step's calls are through
ToolsStep(k) ==
    /\ StepRead(k)
    /\ worker_in.texts[k].trigger = "none"
    /\ worker_in.texts[k].word \notin MarkerWords
    /\ worker_in.texts[k].calls # <<>>
    /\ \A i \in DOMAIN TrimmedOutcomes(k) :
          (FirstFailing(k) = 0 \/ i < FirstFailing(k))
             => TrimmedOutcomes(k)[i] # "raise"

\* C24: the tool calls of one step are executed in text order, at most
\* max_tools_per_step of them; the first call whose result has a non-empty
\* error ends the run with failure "Tool failed: <msg>", and neither a later
\* call of the step nor another step is executed after it.
C24_ToolsInOrderFirstErrorEnds ==
    \A k \in 1..MaxWorkerSteps :
       ToolsStep(k) =>
          LET base == Len(StepsBefore(worker_in, k)) + 1
              e == FirstFailing(k)
              m == IF e > 0 THEN e ELSE Len(TrimmedOutcomes(k))
              steps == worker_out.task.steps
          IN /\ Len(steps) >= base + m
             /\ \A i \in 1..m :
                   steps[base + i] =
                      [step_id |-> base + i, action |-> "action",
                       error |-> ToolError(TrimmedOutcomes(k)[i])]
             /\ (Len(steps) > base + m) =>
                   steps[base + m + 1].action \in {"decision", "command"}
             /\ (e > 0) =>
                   /\ Len(steps) = base + e
                   /\ ~worker_out.result.success
                   /\ worker_out.result.error =
                         [prefix |-> "Tool failed: ",
                          detail |-> ToolError(TrimmedOutcomes(k)[e])]
                   /\ worker_out.result.steps_completed = k
                   /\ worker_out.generate_calls = k

\* the first text of a run calls a tool that fails and then another tool
C24_Witness ==
    /\ ToolsStep(1)
    /\ FirstFailing(1) = 1
    /\ Len(worker_in.texts[1].calls) = 2
    /\ ~worker_out.result.success

\* C25: when generate raises in step k of the worker loop, the run ends with
\* failure, the task is ERROR, the steps logged before step k are kept, and
\* after them the log holds a failed step (a step with a non-empty error).
C25_GenerateFailureLogged ==
    \A k \in 1..MaxWorkerSteps :
       (/\ worker_out.op = "execute"
        /\ k <= Len(worker_in.texts)
        /\ worker_out.generate_calls = k
        /\ WorkerDecisions(worker_in)[k].kind = "raise")
       => (/\ ~worker_out.result.success
           /\ worker_out.task.status = "ERROR"
           /\ IsPrefix(StepsBefore(worker_in, k), worker_out.task.steps)
           /\ Len(worker_out.task.steps) > Len(StepsBefore(worker_in, k))
           /\ worker_out.task.steps[Len(worker_out.task.steps)].error # "")

\* C26: a text that triggers a command adds one `command` step and has the
\* command's state changes applied without an exception; after the pause
\* command the run returns success at that step and the router is not called
\* again; after the resume command the run goes on to the next step.
C26_CommandStateChangesApplied ==
    \A k \in 1..MaxWorkerSteps :
       (/\ StepRead(k)
        /\ worker_in.texts[k].trigger \in {"cmd_pause", "cmd_resume"})
       => (/\ worker_out.loop # "raised"
           /\ Len(worker_out.task.steps) > Len(StepsBefore(worker_in, k))
           /\ worker_out.task.steps[Len(StepsBefore(worker_in, k)) + 1].action
                 = "command"
           /\ worker_in.texts[k].trigger = "cmd_pause"
                 => (/\ worker_out.result.success
                     /\ worker_out.result.steps_completed = k
                     /\ worker_out.generate_calls = k
                     /\ Len(worker_out.task.steps)
                           = Len(StepsBefore(worker_in, k)) + 1)
           /\ (worker_in.texts[k].trigger = "cmd_resume" /\ k < MaxWorkerSteps)
                 => worker_out.generate_calls > k)

C29_ShutdownReturns ==
    [][Shutdown => (sup_out'.ret = "None" /\ supervisor'.status = "shutdown")]_vars


\* C30: an operation that takes the file lock with no other party holding it
\* comes to its end, and .context/.lock is gone when it has: after
\* write_journal the lock file does not exist.
C30_LockReleasedAfterOperation ==
    [][(~journal_lock /\ WriteJournal) => ~journal_lock']_vars

\* C33: compacting a journal of n > compact_after entries gives one INIT
\* summary entry followed by the min(n, journal_max) most recent entries,
\* unchanged and in order, and the summary counts the entries it replaced.
C33_CompactionKeepsRecent ==
    [][(Compact /\ Len(journal) > journal_meta.compact_after) =>
          LET n == Len(journal)
              k == Min(n, journal_meta.journal_max)
          IN /\ Len(journal') = k + 1
             /\ journal'[1].phase = "INIT"
             /\ journal'[1].compacted
             /\ journal'[1].entry_count = n - k
             /\ SubSeq(journal', 2, k + 1) = SubSeq(journal, n - k + 1, n)]_vars

\* C31: when add_journal_entry calls run concurrently, the entry of each of
\* them is in the journal file in the end.
C31_EveryEntryKept ==
    <>(\A a \in Adders :
          \E i \in 1..Len(journal_file) : journal_file[i].task_id = a)

\* C32: after N concurrent record_generation calls for one provider,
\* total_requests has grown by exactly N, in memory and in the saved file,
\* and no call has failed.
C32_NoUpdateLost ==
    (\A t \in Recorders : rec_pc[t] = "done")
       => /\ rec_total = MaxRecorders
          /\ rec_file = MaxRecorders
          /\ \A t \in Recorders : rec_err[t] = ""

\* total_requests a ledger holds for a provider, 0 when it has no entry
RequestsOf(ms, p) == IF p \in DOMAIN ms THEN ms[p].total_requests ELSE 0

\* C34: a generate call on a router with metrics attached whose provider
\* returns hands the response to the caller and records exactly one request
\* for that provider.
C34_SuccessReturnedAndRecorded ==
    [][\A explicit \in ExplicitNames :
          (/\ Generate(explicit, "ok")
           /\ router_cfg.model_metrics
           /\ router_out'.invoked # "None")
          => /\ router_out'.ret = "response"
             /\ RequestsOf(router_metrics', router_out'.invoked) =
                   RequestsOf(router_metrics, router_out'.invoked) + 1]_vars

\* what the filter is to block: a command with a dangerous pattern that is
\* in the denylist, or that no entry of a non-empty allowlist covers, or
\* that meets an empty allowlist
Blocks(filter, command) ==
    \E p \in command.has :
       \/ p \in filter.denylist
       \/ filter.allowlist # {} /\ filter.allowlist \cap command.has = {}
       \/ filter.allowlist = {}

\* C35: a worker with a syscall filter does not run a tool call whose
\* command the filter blocks: the call ends with an error, and the blocked
\* counter, in memory and in the file, goes up.
C35_BlockedCommandNotRun ==
    [][\A filter \in Filters, sandbox \in BOOLEAN, command \in Commands :
          (/\ FilterExecuteTool(filter, sandbox, command, "ok")
           /\ filter.configured
           /\ Blocks(filter, command))
          => /\ tool_out'.ret # "ok"
             /\ blocked_count' > blocked_count
             /\ blocked_file' = blocked_count']_vars

\* C36: get_next_available(P) answers with an account exactly when an
\* account of P has cooldown_until <= now; the account it gives has the
\* highest priority among those, and it answers none, without raising, when
\* there is no such account.
C36_NextAvailableByPriority ==
    [][\A p \in AcctProviders :
          GetNext(p) =>
             LET accs == AccountsOf(accounts, p)
                 avail == {i \in 1..Len(accs) : accs[i].cooldown_until <= acct_now}
             IN IF avail = {} THEN acct_out'.ret = "None"
                ELSE \E i \in avail :
                        /\ acct_out'.ret = accs[i].account_id
                        /\ \A j \in avail : accs[i].priority >= accs[j].priority]_vars

\* C37: a provider that check_rate_limit put into cooldown, whose cooldown
\* is over, whose success rate is above 0.5, whose failure rate is at most
\* 0.2 and whose average latency is at most 5000 ms, is reported available.
C37_AvailableAfterCooldown ==
    \A p \in DOMAIN router_metrics :
       LET m == router_metrics[p]
       IN (/\ m.rate_limit_hit
           /\ m.cooldown_until # 0
           /\ router_now >= m.cooldown_until
           /\ m.total_requests > 0
           /\ 2 * m.successful_requests > m.total_requests
           /\ 10 * m.failed_requests <= 2 * m.total_requests
           /\ m.total_latency_ms <= 5000 * m.total_requests)
          => IsProviderAvailable(router_metrics, p, router_now) = "True"

====
